---- MODULE Spec2Model ----
(***************************************************************************)
(* A state-machine model of python_ai/backtests/backtest_runner.py         *)
(* (run_backtest) together with the parts of python_ai/scoring it calls.   *)
(*                                                                         *)
(* Money and prices are exact integers.  Scores are integers in units of   *)
(* 1e-4 (score_stock rounds every score to 4 decimals).  Dates are the     *)
(* proleptic ordinals of datetime.date, so date.weekday() is (d + 6) % 7.  *)
(*                                                                         *)
(* run_backtest reads, on trading day D, only bars dated <= D (the exit    *)
(* check and the equity mark read the bar dated D, the entry check the     *)
(* history up to D); only the final force-close reads the last row of a    *)
(* symbol's whole series.  The model therefore reveals ohlcv_data and      *)
(* nifty_data one trading day at a time (BeginDay) and the end of every    *)
(* series when the day loop ends (EndLoop).                                *)
(*                                                                         *)
(* Specifications:                                                         *)
(*   Spec          run_backtest with valid parameters;                     *)
(*   SpecAnyConfig run_backtest with any parameters;                       *)
(*   SpecRegime    one call of market_regime.detect_regime;                *)
(*   SpecScore     one call of one of the five score_* functions of        *)
(*                 stock_scorer.py;                                        *)
(*   SpecUniverse  one call of stock_scorer.score_universe;                *)
(*   SpecRegimeDate the regime computed for one date, by run_scoring.main  *)
(*                 and by the entry check of run_backtest, on two index    *)
(*                 files that agree on the bars dated up to that date;     *)
(*   SpecFeatures  indicators.compute_all_features on a frame and on the   *)
(*                 same frame truncated;                                   *)
(*   SpecBackfill  runs of scripts/backfill_ai_scores.py over one output   *)
(*                 directory;                                              *)
(*   SpecFetch     one call of python_ai/data/fetch_dhan.fetch_chunk       *)
(*                 against a server that answers with any status codes.    *)
(***************************************************************************)
EXTENDS Integers, Sequences, FiniteSets, TLC

VARIABLES
    initial_capital,  \* parameter
    max_risk_pct,     \* parameter (percent)
    max_positions,    \* parameter
    start_date,       \* parameter (ordinal)
    end_date,         \* parameter (ordinal)
    capital,          \* cash balance
    trades,           \* closed-trade ledger (list of BacktestTrade)
    open_positions,   \* list of BacktestTrade
    daily_equity,     \* list of equity marks
    day_idx,          \* number of trading_dates the day loop has taken
    trading_date,     \* loop variable of the day loop (0 before the first day)
    closed,           \* positions closed by today's exit check
    pc,               \* position in run_backtest
    idx,              \* index of the inner loop at pc
    regime,           \* regime detected today ("NONE" when detect_regime was not called)
    candidates,       \* today's sorted candidate list
    slots,            \* free slots computed at line 184
    day_bar,          \* symbol -> the bar dated trading_date (has = FALSE when none)
    last_close,       \* symbol -> close of the latest bar dated <= trading_date
    history_len,      \* symbol -> len(df[df.date <= trading_date].tail(250))
    nifty_count,      \* number of nifty_data bars dated <= trading_date
    series_last,      \* symbol -> close of the last row of the whole series (set by EndLoop)
    opened,           \* history: (symbol, entry_date) of every position ever created
    fn_pc,            \* "idle" during a backtest; "call"/"return" around a scoring call;
                      \* the position in a script or in fetch_chunk
    fn_args,          \* arguments of the function or script being run
    fn_ret,           \* its return value
    fn_local,         \* its local variables (<<>> when it is modelled as one step)
    outside           \* what it has done outside the process: files written,
                      \* requests sent, sleeps (<<>> when it does nothing of the kind)

vars == <<initial_capital, max_risk_pct, max_positions, start_date, end_date,
          capital, trades, open_positions, daily_equity, trading_date, closed,
          pc, idx, regime, candidates, slots, day_bar, last_close, history_len,
          nifty_count, series_last, day_idx, opened, fn_pc, fn_args, fn_ret,
          fn_local, outside>>

\* The state of one run_backtest call.
run_vars == <<initial_capital, max_risk_pct, max_positions, start_date, end_date,
              capital, trades, open_positions, daily_equity, trading_date, closed,
              pc, idx, regime, candidates, slots, day_bar, last_close, history_len,
              nifty_count, series_last, day_idx, opened>>

\* The state of one call of a function, or one run of a script, other than
\* run_backtest.
fn_vars == <<fn_pc, fn_args, fn_ret, fn_local, outside>>

params == <<initial_capital, max_risk_pct, max_positions, start_date, end_date>>

-----------------------------------------------------------------------------
(* Bounds and input sets                                                   *)

\* Last calendar ordinal a run may end on (ordinal 8 is a Monday).
MaxEndDate == 8

\* ohlcv_data keys in dict insertion order.
Symbols == <<"A", "B">>
SymbolSet == {Symbols[k] : k \in 1..Len(Symbols)}

\* (start_date, end_date): a Friday to the last date, and a weekend.
DateRanges == { <<5, MaxEndDate>>, <<6, 7>> }

\* (initial_capital, max_risk_pct, max_positions).
Configs == { <<100000, 1, 1>>, <<100000, 5, 2>>, <<80, 5, 2>> }

\* Parameter combinations with a non-positive capital or a non-positive
\* max_positions; run_backtest accepts any numbers.
InvalidConfigs == { <<0, 1, 1>>, <<-100000, 1, 1>>, <<100000, 1, 0>>, <<100000, 1, -1>> }

\* Bars a symbol can have on a trading day (positive prices, low <= close <= high):
\* a quiet one, one that falls, one that rises, one that does both; the first
\* symbol can also close at the low of a fall.
NoBar == [has |-> FALSE, low |-> 0, high |-> 0, close |-> 0]
Bars == { [has |-> TRUE, low |-> 98, high |-> 102, close |-> 100],
          [has |-> TRUE, low |-> 40, high |-> 102, close |-> 100],
          [has |-> TRUE, low |-> 98, high |-> 160, close |-> 100],
          [has |-> TRUE, low |-> 40, high |-> 160, close |-> 100] }
FallingBars == { [has |-> TRUE, low |-> 50, high |-> 100, close |-> 50] }
DayBars ==
    { b \in [SymbolSet -> Bars \cup FallingBars \cup {NoBar}] :
         \A s \in SymbolSet : b[s] \in FallingBars => s = Symbols[1] }

\* Rows each series has before start_date (one symbol with a long history, one
\* a bar short of the 50 the entry check asks for; the index one or two bars
\* short of 200), and the close of the last of them.
PreHistory == [s \in SymbolSet |-> IF s = Symbols[1] THEN 250 ELSE 49]
PreNiftyCounts == {198, 199}
PreCloses == {100}

\* Closes of the last row of a series that runs past end_date.
TailCloses == {70}

\* What the entry check reads off a symbol's last feature row: the scores of
\* score_stock (units of 1e-4) and atr_14: a usual value, zero (constant
\* prices), more than half the price (stop below zero) and undefined (nan).
Strong == [trend |-> 8000, breakout |-> 6000, liquidity |-> 5000, risk |-> 2000]
Edge == [trend |-> 6000, breakout |-> 5000, liquidity |-> 4000, risk |-> 5000]
FeatureRows ==
    { [scores |-> Strong, atr |-> [nan |-> FALSE, v |-> 2]],
      [scores |-> Edge, atr |-> [nan |-> TRUE, v |-> 0]],
      [scores |-> Edge, atr |-> [nan |-> FALSE, v |-> 0]],
      [scores |-> Strong, atr |-> [nan |-> FALSE, v |-> 60]],
      [scores |-> [Strong EXCEPT !.trend = 5999], atr |-> [nan |-> FALSE, v |-> 2]],
      [scores |-> [Strong EXCEPT !.risk = 5001], atr |-> [nan |-> FALSE, v |-> 2]] }

\* What detect_regime reads off the latest nifty row: the outcome of each factor.
RegimeInputs ==
    { [sma200 |-> "above", cross |-> "above", ema21 |-> "above", rsi |-> "gt55",
       chg20 |-> "up", adx_gt25 |-> TRUE],
      [sma200 |-> "above", cross |-> "below", ema21 |-> "below", rsi |-> "neutral",
       chg20 |-> "flat", adx_gt25 |-> FALSE],
      [sma200 |-> "below", cross |-> "below", ema21 |-> "below", rsi |-> "lt45",
       chg20 |-> "down", adx_gt25 |-> TRUE] }

\* Every outcome of the six factors of detect_regime on the latest row ("nan"
\* is an undefined average, on which the factor is skipped; a close that is
\* not above the 200-day average, undefined or not, counts as "below").
AllRegimeInputs ==
    [sma200 : {"above", "below"}, cross : {"above", "below", "nan"},
     ema21 : {"above", "below", "nan"}, rsi : {"gt55", "lt45", "neutral"},
     chg20 : {"up", "down", "flat"}, adx_gt25 : BOOLEAN]

\* The longest index frame passed to detect_regime, and the frame lengths tried.
MaxRegimeBars == 201
RegimeBarCounts == {0, 1} \cup (198..MaxRegimeBars)

\* Feature values: undefined (NaN or a missing key) or a number.
NaN == [nan |-> TRUE, v |-> 0]
Num(x) == [nan |-> FALSE, v |-> x]
Nums(S) == {Num(x) : x \in S}

\* ATR values tried against a close of 10000, so that ATR/close is the value
\* in basis points: below, on the edges of, inside and above the band [1%, 3%].
AtrValues == {0, 1, 30, 50, 99, 100, 150, 200, 250, 300, 301, 500, 750, 800, 2000}

\* The feature rows each scoring function is called with: only the fields
\* the function reads.  Prices are 0 or 10000, averages lie on both sides of
\* the price, oscillators on both sides of every threshold of the code, and a
\* constant-price history shows as a zero ATR and a zero Bollinger range.
TrendRows ==
    [close : {0, 10000},
     sma_20 : {NaN} \cup Nums({9000, 11000}),
     sma_50 : {NaN} \cup Nums({9000, 11000}),
     sma_200 : {NaN} \cup Nums({9000, 11000}),
     ema_9 : {NaN} \cup Nums({9900}),
     ema_21 : {NaN} \cup Nums({9500, 9950}),
     macd_histogram : {NaN} \cup Nums({-1, 1}),
     rsi_14 : {NaN} \cup Nums({39, 40, 49, 50, 70, 71}),
     adx_14 : {NaN} \cup Nums({25, 26, 50, 80})]

BreakoutRows ==
    [close : {0, 10000},
     bb_lower : {NaN} \cup Nums({9000, 10000}),
     bb_upper : {NaN} \cup Nums({10000, 10100, 10250, 10500, 12000}),
     volume : {0, 1000, 1200, 1201, 1500, 1501},
     volume_sma_20 : {NaN} \cup Nums({0, 1000}),
     macd_histogram : {NaN} \cup Nums({-1, 0, 1}),
     macd : {NaN} \cup Nums({5}),
     macd_signal : {NaN} \cup Nums({4, 6})]

VolatilityRows == [close : {0, 10000}, atr_14 : {NaN} \cup Nums(AtrValues)]

RiskRows ==
    [close : {0, 10000},
     rsi_14 : {NaN} \cup Nums({10, 19, 20, 80, 81}),
     atr_14 : {NaN} \cup Nums({0, 300, 301, 400, 401}),
     sma_200 : {NaN} \cup Nums({9000, 11000}),
     adx_14 : {NaN} \cup Nums({14, 15}),
     macd_histogram : {NaN} \cup Nums({-1, 1})]

LiquidityRows ==
    [volume : {0, 1000, 2000, 250000, 500000, 1000000},
     volume_sma_20 : {NaN} \cup Nums({0, 1000, 250000})]

\* The largest universe passed to score_universe, and the score rows
\* score_stock returns for its symbols (units of 1e-4); two symbols with the
\* same row have the same composite score.
MaxUniverse == 3
UniverseScores ==
    { [trend |-> 8000, breakout |-> 6000, liquidity |-> 5000, volatility |-> 9000,
       risk |-> 2000],
      [trend |-> 8000, breakout |-> 6000, liquidity |-> 5000, volatility |-> 9000,
       risk |-> 5000],
      [trend |-> 2000, breakout |-> 0, liquidity |-> 0, volatility |-> 5000,
       risk |-> 0],
      [trend |-> 10000, breakout |-> 10000, liquidity |-> 10000, volatility |-> 10000,
       risk |-> 0] }
Universes == UNION {[1..n -> UniverseScores] : n \in 1..MaxUniverse}

-----------------------------------------------------------------------------
(* Pure helpers                                                            *)

Min(a, b) == IF a <= b THEN a ELSE b
Max(a, b) == IF a >= b THEN a ELSE b
Abs(x) == IF x >= 0 THEN x ELSE -x

\* Python int(a / b) for b > 0: truncation toward zero.
IntDiv(a, b) == IF a >= 0 THEN a \div b ELSE -((-a) \div b)

\* date.weekday(): Monday is 0.
Weekday(d) == (d + 6) % 7

\* Lines 94-99: the trading dates of [s, e], ascending, weekends skipped.
RECURSIVE TradingDatesFrom(_, _)
TradingDatesFrom(cur, e) ==
    IF cur > e THEN <<>>
    ELSE (IF Weekday(cur) < 5 THEN <<cur>> ELSE <<>>) \o TradingDatesFrom(cur + 1, e)

TradingDates(s, e) == TradingDatesFrom(s, e)

\* Line 101: the dates of trading_dates the loop has not taken yet.
RemainingDates ==
    LET all == TradingDates(start_date, end_date)
    IN  SubSeq(all, day_idx + 1, Len(all))

\* Faulty variant of LoopExhausted: the loop stops one trading date short.
LoopStopsEarly(rem) == Len(rem) <= 1

\* Line 101: the for loop ends when its iterator is exhausted.
LoopExhausted(rem) == rem = <<>>

\* list.remove(c): drops the first element equal to c.
RECURSIVE RemoveFirst(_, _)
RemoveFirst(s, c) ==
    IF s = <<>> THEN <<>>
    ELSE IF Head(s) = c THEN Tail(s)
    ELSE <<Head(s)>> \o RemoveFirst(Tail(s), c)

RECURSIVE RemoveAll(_, _)
RemoveAll(s, cs) ==
    IF cs = <<>> THEN s ELSE RemoveAll(RemoveFirst(s, Head(cs)), Tail(cs))

-----------------------------------------------------------------------------
(* python_ai/scoring/market_regime.py                                      *)

\* Lines 66-112: bull_score and bear_score in hundredths.  The scores are
\* sums of doubles: the only two sides that are equal as numbers, 0.25 + 0.20
\* and 0.15 + 0.15 + 0.15, differ as doubles (0.45 and 0.44999999999999996), so
\* at line 109 the side holding factors 1 and 2 leads.
FactorScores(f) ==
    LET b1 == IF f.sma200 = "above" THEN 25 ELSE 0
        r1 == IF f.sma200 = "above" THEN 0 ELSE 25
        b2 == IF f.cross = "above" THEN 20 ELSE 0
        r2 == IF f.cross = "below" THEN 20 ELSE 0
        b3 == IF f.ema21 = "above" THEN 15 ELSE 0
        r3 == IF f.ema21 = "below" THEN 15 ELSE 0
        b4 == IF f.rsi = "gt55" THEN 15 ELSE 0
        r4 == IF f.rsi = "lt45" THEN 15 ELSE 0
        b5 == IF f.chg20 = "up" THEN 15 ELSE 0
        r5 == IF f.chg20 = "down" THEN 15 ELSE 0
        bull == b1 + b2 + b3 + b4 + b5
        bear == r1 + r2 + r3 + r4 + r5
        bullLeads == bull > bear \/ (bull = bear /\ b1 + b2 = 45)
        bearLeads == bear > bull \/ (bull = bear /\ r1 + r2 = 45)
    IN  [bull |-> IF f.adx_gt25 /\ bullLeads THEN bull + 10 ELSE bull,
         bear |-> IF f.adx_gt25 /\ ~bullLeads /\ bearLeads THEN bear + 10 ELSE bear]

\* Faulty variant of TooFewBars: a frame of 199 rows is analysed.
TooFewBarsBelow199(n) == n < 199

\* Line 40.
TooFewBars(n) == n < 200

\* Faulty variant of IsBull: the boundary 0.65 itself is not BULL.
IsBullStrict(bull, total) == 100 * bull > 65 * total

\* Lines 125 and 128: bull_ratio >= 0.65 and bull_ratio <= 0.35, for
\* bull_ratio = bull / total with total > 0.
IsBull(bull, total) == 100 * bull >= 65 * total
IsBear(bull, total) == 100 * bull <= 35 * total

\* round(num / den, 4) in units of 1e-4, for num >= 0 and den > 0.
Round4(num, den) == (2 * 10000 * num + den) \div (2 * den)

\* Lines 40-45 and 114-139: detect_regime(nifty_df) for a frame of n rows whose
\* latest row gives the factor outcomes f; confidence in units of 1e-4.
RegimeResult(n, f) ==
    IF TooFewBars(n) THEN [regime |-> "SIDEWAYS", confidence |-> 5000]
    ELSE LET s == FactorScores(f)
             total == s.bull + s.bear
             spread == IF s.bull >= s.bear THEN s.bull - s.bear ELSE s.bear - s.bull
         IN  IF total = 0 THEN [regime |-> "SIDEWAYS", confidence |-> 5000]
             ELSE IF IsBull(s.bull, total)
                  THEN [regime |-> "BULL",
                        confidence |-> Min(Round4(s.bull, total), 9500)]
             ELSE IF IsBear(s.bull, total)
                  THEN [regime |-> "BEAR",
                        confidence |-> Min(Round4(total - s.bull, total), 9500)]
             ELSE [regime |-> "SIDEWAYS", confidence |-> Round4(total - spread, total)]

\* detect_regime(nifty_df)["regime"].
DetectRegime(n, f) == RegimeResult(n, f).regime

-----------------------------------------------------------------------------
(* python_ai/scoring/stock_scorer.py                                       *)
(*                                                                         *)
(* A feature value is a record: nan says that the indicator is undefined   *)
(* (NaN, or the key missing), v is its value otherwise.  Scores are in     *)
(* units of 1e-4; on the rows of this module every division is exact.      *)

NotNa(x) == ~x.nan

\* Lines 34-77: the weight earned by the row, component by component.
TrendEarned(row) ==
    LET ma(col, w) == IF NotNa(col) /\ row.close > col.v THEN w ELSE 0
        align == IF /\ NotNa(row.ema_9) /\ NotNa(row.ema_21) /\ NotNa(row.sma_50)
                    /\ row.ema_9.v > row.ema_21.v
                    /\ row.ema_21.v > row.sma_50.v
                 THEN 2000 ELSE 0
        macd == IF NotNa(row.macd_histogram) /\ row.macd_histogram.v > 0
                THEN 1500 ELSE 0
        rsi == IF row.rsi_14.nan THEN 0
               ELSE IF 50 <= row.rsi_14.v /\ row.rsi_14.v <= 70 THEN 1500
               ELSE IF 40 <= row.rsi_14.v /\ row.rsi_14.v < 50 THEN 700
               ELSE 0
        adx == IF NotNa(row.adx_14) /\ row.adx_14.v > 25
               THEN (2000 * Min(row.adx_14.v, 50)) \div 50 ELSE 0
    IN  ma(row.sma_20, 500) + ma(row.sma_50, 1000) + ma(row.sma_200, 1500)
           + align + macd + rsi + adx

\* Lines 44, 49, 59, 64 and 73: weights_total is increased before each
\* component looks at its inputs, defined or not.
TrendWeightsTotal(row) == 500 + 1000 + 1500 + 2000 + 1500 + 1500 + 2000

\* Line 79.
ScoreTrendStrength(row) ==
    IF TrendWeightsTotal(row) > 0
    THEN Min((TrendEarned(row) * 10000) \div TrendWeightsTotal(row), 10000)
    ELSE 0

\* Lines 82-121.
ScoreBreakoutQuality(row) ==
    LET bb_range == row.bb_upper.v - row.bb_lower.v
        band == IF NotNa(row.bb_upper) /\ NotNa(row.bb_lower) /\ bb_range > 0
                THEN IF 10 * (row.close - row.bb_lower.v) > 8 * bb_range THEN 4000
                     ELSE IF 10 * (row.close - row.bb_lower.v) > 6 * bb_range THEN 2000
                     ELSE 0
                ELSE 0
        vol == IF NotNa(row.volume_sma_20) /\ row.volume_sma_20.v > 0
               THEN IF 10 * row.volume > 15 * row.volume_sma_20.v THEN 3500
                    ELSE IF 10 * row.volume > 12 * row.volume_sma_20.v THEN 2000
                    ELSE IF row.volume > row.volume_sma_20.v THEN 1000
                    ELSE 0
               ELSE 0
        hist == IF NotNa(row.macd_histogram) /\ row.macd_histogram.v > 0 THEN 1500 ELSE 0
        cross == IF /\ NotNa(row.macd_histogram) /\ NotNa(row.macd) /\ NotNa(row.macd_signal)
                    /\ row.macd.v > row.macd_signal.v
                 THEN 1000 ELSE 0
    IN  Min(band + vol + hist + cross, 10000)

\* Line 136: atr_pct in units of 1e-4 (basis points), for close # 0.
AtrPct(row) == (row.atr_14.v * 10000) \div row.close

\* Faulty variant of ScoreVolatility: the decay above the band has no floor.
ScoreVolatilityNoFloor(row) ==
    IF row.atr_14.nan \/ row.close = 0 THEN 5000
    ELSE LET bp == AtrPct(row)
         IN  IF 100 <= bp /\ bp <= 300
             THEN 8000 + (2000 * (100 - Abs(bp - 200))) \div 100
             ELSE IF bp < 100 THEN Max(3000, 100 * bp)
             ELSE 10000 - (10000 * (bp - 300)) \div 500

\* Lines 124-143.
ScoreVolatility(row) ==
    IF row.atr_14.nan \/ row.close = 0 THEN 5000
    ELSE LET bp == AtrPct(row)
         IN  IF 100 <= bp /\ bp <= 300
             THEN 8000 + (2000 * (100 - Abs(bp - 200))) \div 100
             ELSE IF bp < 100 THEN Max(3000, 100 * bp)
             ELSE Max(1000, 10000 - (10000 * (bp - 300)) \div 500)

\* Lines 146-183.
ScoreRisk(row) ==
    LET rsi == IF row.rsi_14.nan THEN 0
               ELSE IF row.rsi_14.v > 80 THEN 3000
               ELSE IF row.rsi_14.v < 20 THEN 2000
               ELSE 0
        atr == IF NotNa(row.atr_14) /\ row.close > 0
               THEN IF 100 * row.atr_14.v > 4 * row.close THEN 3000
                    ELSE IF 100 * row.atr_14.v > 3 * row.close THEN 1500
                    ELSE 0
               ELSE 0
        below == IF NotNa(row.sma_200) /\ row.close < row.sma_200.v THEN 2000 ELSE 0
        weak == IF NotNa(row.adx_14) /\ row.adx_14.v < 15 THEN 1000 ELSE 0
        bearish == IF NotNa(row.macd_histogram) /\ row.macd_histogram.v < 0 THEN 1000 ELSE 0
    IN  Min(rsi + atr + below + weak + bearish, 10000)

\* Lines 186-205.
ScoreLiquidity(row) ==
    IF row.volume_sma_20.nan \/ row.volume_sma_20.v <= 0 THEN 0
    ELSE LET avg == row.volume_sma_20.v
             \* 0.6 * min(vol_ratio / 2.0, 1.0)
             relative == (3000 * Min(row.volume, 2 * avg)) \div avg
             \* 0.4 * min(abs_volume / 500_000, 1.0)
             absolute == (4000 * Min(row.volume, 500000)) \div 500000
         IN  relative + absolute

\* Lines 241-247: composite_score in units of 1e-6.
Composite(sc) ==
    30 * sc.trend + 25 * sc.breakout + 20 * sc.liquidity + 15 * sc.volatility
       + 10 * (10000 - sc.risk)

\* Line 249: sort_values("composite_score", ascending=False) with the default
\* kind, quicksort, which is not a stable sort: the rows come out in descending
\* order of the key, and rows of equal key in an order the sort does not fix.
\* The orders are the permutations of the row positions it can return.
SortOrders(rows) ==
    { p \in [1..Len(rows) -> 1..Len(rows)] :
         /\ \A i, j \in 1..Len(rows) : i # j => p[i] # p[j]
         /\ \A k \in 1..(Len(rows) - 1) :
                Composite(rows[p[k]]) >= Composite(rows[p[k + 1]]) }

\* Lines 239-252: the frame score_universe returns for a sort order; index is
\* the position of the row in features_df.
RankedFrame(rows, order) ==
    [k \in 1..Len(rows) |->
        [index |-> order[k], composite_score |-> Composite(rows[order[k]]), rank |-> k]]

-----------------------------------------------------------------------------
(* python_ai/backtests/backtest_runner.py                                  *)

\* BacktestTrade(symbol, entry_date, entry_price, stop_loss, target, quantity);
\* exit_date 0 and exit_reason "" are the dataclass defaults.
NewTrade(symbol, date, price, stop, tgt, qty) ==
    [symbol |-> symbol, entry_date |-> date, entry_price |-> price,
     exit_date |-> 0, exit_price |-> 0, stop_loss |-> stop, target |-> tgt,
     quantity |-> qty, pnl |-> 0, exit_reason |-> ""]

\* Faulty variant of ExitReason: a day without a bar is read as a bar of zeros.
ExitReasonMissingBarAsZero(pos, bar) ==
    IF bar.low <= pos.stop_loss THEN "stop_loss"
    ELSE IF bar.high >= pos.target THEN "target"
    ELSE ""

\* Faulty variant of ExitReason: the target is checked before the stop.
ExitReasonTargetFirst(pos, bar) ==
    IF ~bar.has THEN ""
    ELSE IF bar.high >= pos.target THEN "target"
    ELSE IF bar.low <= pos.stop_loss THEN "stop_loss"
    ELSE ""

\* Lines 109-135: what the exit check decides for pos against the day's bar.
ExitReason(pos, bar) ==
    IF ~bar.has THEN ""
    ELSE IF bar.low <= pos.stop_loss THEN "stop_loss"
    ELSE IF bar.high >= pos.target THEN "target"
    ELSE ""

\* Faulty variant of ExitPrice: the two exit prices are swapped.
ExitPriceSwapped(pos, reason) == IF reason = "stop_loss" THEN pos.target ELSE pos.stop_loss

\* Lines 118 and 129.
ExitPrice(pos, reason) == IF reason = "stop_loss" THEN pos.stop_loss ELSE pos.target

\* Faulty variant of CloseTrade: the pnl is that of one share.
CloseTradePnlPerShare(pos, date, price, reason) ==
    [pos EXCEPT !.exit_date = date, !.exit_price = price,
                !.pnl = price - pos.entry_price,
                !.exit_reason = reason]

\* Lines 117-120, 128-131, 235-238: the fields an exit sets on the trade.
CloseTrade(pos, date, price, reason) ==
    [pos EXCEPT !.exit_date = date, !.exit_price = price,
                !.pnl = (price - pos.entry_price) * pos.quantity,
                !.exit_reason = reason]

\* Faulty variant of LedgerAppend: the trade is inserted at the front.
LedgerPrepend(ledger, t) == <<t>> \o ledger

\* Lines 122 and 133, 240: trades.append(pos).
LedgerAppend(ledger, t) == Append(ledger, t)

\* Faulty variant of RemoveClosed: the closed positions stay in the list.
RemoveClosedNothing(open, cl) == open

\* Lines 137-138.
RemoveClosed(open, cl) == RemoveAll(open, cl)

\* Lines 141 and 144: the guards in front of detect_regime.
HasCapacity(nOpen, maxPos) == nOpen < maxPos
EnoughIndexHistory(n) == n >= 200

\* Faulty variant of RegimeAllowsEntry: only a BEAR regime blocks entries.
RegimeNotBear(r) == r # "BEAR"

\* Line 147.
RegimeAllowsEntry(r) == r = "BULL"

\* Lines 164-169.
\* Faulty variant of PassesEntryFilters: the risk filter is missing.
PassesEntryFiltersNoRisk(sc) ==
    /\ sc.trend >= 6000
    /\ sc.breakout >= 5000
    /\ sc.liquidity >= 4000

PassesEntryFilters(sc) ==
    /\ sc.trend >= 6000
    /\ sc.breakout >= 5000
    /\ sc.liquidity >= 4000
    /\ sc.risk <= 5000

\* Lines 176-180, times 100.
EntryRank(c) == 30 * c.trend + 25 * c.breakout + 20 * c.liquidity

\* Faulty variant of InsertDesc: an unstable sort that puts a later candidate
\* ahead of earlier ones of equal rank.
RECURSIVE InsertDescUnstable(_, _)
InsertDescUnstable(sorted, c) ==
    IF sorted = <<>> THEN <<c>>
    ELSE IF EntryRank(Head(sorted)) > EntryRank(c)
         THEN <<Head(sorted)>> \o InsertDescUnstable(Tail(sorted), c)
         ELSE <<c>> \o sorted

\* Lines 175-182: list.sort(key, reverse=True) is stable.
RECURSIVE InsertDesc(_, _)
InsertDesc(sorted, c) ==
    IF sorted = <<>> THEN <<c>>
    ELSE IF EntryRank(Head(sorted)) >= EntryRank(c)
         THEN <<Head(sorted)>> \o InsertDesc(Tail(sorted), c)
         ELSE <<c>> \o sorted

RECURSIVE SortCandidates(_)
SortCandidates(cs) ==
    IF cs = <<>> THEN <<>>
    ELSE InsertDesc(SortCandidates(SubSeq(cs, 1, Len(cs) - 1)), cs[Len(cs)])

\* Faulty variant of BuildCandidates: a passing symbol is listed twice.
RECURSIVE BuildCandidatesTwice(_, _, _, _)
BuildCandidatesTwice(k, feat, counts, closes) ==
    IF k > Len(Symbols) THEN <<>>
    ELSE LET s == Symbols[k]
             rest == BuildCandidatesTwice(k + 1, feat, counts, closes)
             cand == [symbol |-> s, trend |-> feat[s].scores.trend,
                      breakout |-> feat[s].scores.breakout,
                      liquidity |-> feat[s].scores.liquidity,
                      risk |-> feat[s].scores.risk,
                      close |-> closes[s], atr |-> feat[s].atr]
         IN  IF counts[s] < 50 THEN rest
             ELSE IF PassesEntryFilters(feat[s].scores)
                  THEN <<cand, cand>> \o rest
                  ELSE rest

\* Lines 149-172: the candidates of the day in universe order; feat gives each
\* symbol's score row and atr_14 computed from its history up to the day.
RECURSIVE BuildCandidates(_, _, _, _)
BuildCandidates(k, feat, counts, closes) ==
    IF k > Len(Symbols) THEN <<>>
    ELSE LET s == Symbols[k]
             rest == BuildCandidates(k + 1, feat, counts, closes)
         IN  IF counts[s] < 50 THEN rest
             ELSE IF PassesEntryFilters(feat[s].scores)
                  THEN <<[symbol |-> s, trend |-> feat[s].scores.trend,
                          breakout |-> feat[s].scores.breakout,
                          liquidity |-> feat[s].scores.liquidity,
                          risk |-> feat[s].scores.risk,
                          close |-> closes[s], atr |-> feat[s].atr]>> \o rest
                  ELSE rest

\* Faulty variant of FreeSlots: the open positions are not subtracted.
FreeSlotsIgnoringOpen(maxPos, nOpen) == maxPos

\* Line 184.
FreeSlots(maxPos, nOpen) == maxPos - nOpen

\* Line 185: the number of iterations of `for cand in candidates[:slots]`.
FillLimit(cs, sl) == Min(sl, Len(cs))

\* Line 187: the fallback is entry_price * 0.02 (exact for the prices used here).
EntryAtr(cand) == IF cand.atr.nan THEN (cand.close * 2) \div 100 ELSE cand.atr.v

\* Faulty variant of Target: the target is one risk unit above the entry.
TargetOneRisk(price, rps) == price + rps

\* Lines 188-190.
StopLoss(price, atr) == price - 2 * atr
RiskPerShare(price, stop) == price - stop
Target(price, rps) == price + 2 * rps

\* Faulty variant of Quantity: the cost is not clamped to the capital (lines 197-199 dropped).
QuantityUnclamped(cap, pct, price, rps) ==
    LET q1 == IF rps > 0 THEN IntDiv(cap * pct, 100 * rps) ELSE 0
    IN  IF q1 <= 0 THEN 0 ELSE q1

\* Faulty variant of Quantity: sized by the capital alone (lines 192-195 dropped).
QuantityByCash(cap, pct, price, rps) == IntDiv(cap, price)

\* Lines 192-199: 0 stands for the first `continue` (line 195).
Quantity(cap, pct, price, rps) ==
    LET q1 == IF rps > 0 THEN IntDiv(cap * pct, 100 * rps) ELSE 0
    IN  IF q1 <= 0 THEN 0
        ELSE IF price * q1 > cap THEN IntDiv(cap, price)
        ELSE q1

\* Faulty variant of SkipsCandidate: only a negative quantity is skipped.
SkipsOnlyNegative(q) == q < 0

\* Lines 194 and 200.
SkipsCandidate(q) == q <= 0

\* Faulty variant of PositionsValue: every position is valued at its entry price.
RECURSIVE PositionsValueAtEntry(_, _)
PositionsValueAtEntry(open, bars) ==
    IF open = <<>> THEN 0
    ELSE Head(open).entry_price * Head(open).quantity
            + PositionsValueAtEntry(Tail(open), bars)

\* Lines 216-224.
RECURSIVE PositionsValue(_, _)
PositionsValue(open, bars) ==
    IF open = <<>> THEN 0
    ELSE LET pos == Head(open)
             px == IF bars[pos.symbol].has THEN bars[pos.symbol].close
                   ELSE pos.entry_price
         IN  px * pos.quantity + PositionsValue(Tail(open), bars)

Equity(cap, open, bars) == cap + PositionsValue(open, bars)

\* The symbols of the positions in a list.
HeldSymbols(open) == {open[k].symbol : k \in 1..Len(open)}

-----------------------------------------------------------------------------
(* Actions                                                                 *)

\* Lines 64-91: the state when the day loop is reached, for parameters drawn
\* from cfgs.  No line between 64 and 101 inspects the parameters.
InitWith(cfgs) ==
    /\ \E c \in cfgs :
          /\ initial_capital = c[1]
          /\ max_risk_pct = c[2]
          /\ max_positions = c[3]
    /\ \E r \in DateRanges :
          /\ start_date = r[1]
          /\ end_date = r[2]
    /\ capital = initial_capital
    /\ trades = <<>>
    /\ open_positions = <<>>
    /\ daily_equity = <<>>
    /\ trading_date = 0
    /\ day_idx = 0
    /\ opened = <<>>
    /\ closed = <<>>
    /\ pc = "day"
    /\ idx = 1
    /\ regime = "NONE"
    /\ candidates = <<>>
    /\ slots = 0
    /\ day_bar = [s \in SymbolSet |-> NoBar]
    /\ last_close \in [SymbolSet -> PreCloses]
    /\ history_len = PreHistory
    /\ nifty_count \in PreNiftyCounts
    /\ series_last = [s \in SymbolSet |-> 0]
    /\ fn_pc = "idle"
    /\ fn_args = <<>>
    /\ fn_ret = <<>>
    /\ fn_local = <<>>
    /\ outside = <<>>

\* No backtest is running.
RunIdle ==
    /\ initial_capital = 0
    /\ max_risk_pct = 0
    /\ max_positions = 0
    /\ start_date = 0
    /\ end_date = 0
    /\ capital = 0
    /\ trades = <<>>
    /\ open_positions = <<>>
    /\ daily_equity = <<>>
    /\ trading_date = 0
    /\ day_idx = 0
    /\ opened = <<>>
    /\ closed = <<>>
    /\ pc = "idle"
    /\ idx = 1
    /\ regime = "NONE"
    /\ candidates = <<>>
    /\ slots = 0
    /\ day_bar = [s \in SymbolSet |-> NoBar]
    /\ last_close = [s \in SymbolSet |-> 0]
    /\ history_len = [s \in SymbolSet |-> 0]
    /\ nifty_count = 0
    /\ series_last = [s \in SymbolSet |-> 0]

\* A run with valid parameters.
Init == InitWith(Configs)

\* A run with any parameters, valid or not.
InitAnyConfig == InitWith(Configs \cup InvalidConfigs)

\* Line 101: the next trading date; the day's rows of ohlcv_data and nifty_data
\* (the index has a row on every trading date).
BeginDay ==
    /\ pc = "day"
    /\ ~LoopExhausted(RemainingDates)
    /\ trading_date' = Head(RemainingDates)
    /\ day_idx' = day_idx + 1
    /\ \E bars \in DayBars :
          /\ day_bar' = bars
          /\ last_close' = [s \in SymbolSet |->
                               IF bars[s].has THEN bars[s].close ELSE last_close[s]]
          /\ history_len' = [s \in SymbolSet |->
                                IF bars[s].has THEN Min(history_len[s] + 1, 250)
                                ELSE history_len[s]]
          /\ nifty_count' = nifty_count + 1
    /\ closed' = <<>>
    /\ idx' = 1
    /\ pc' = "exit"
    /\ regime' = "NONE"
    /\ candidates' = <<>>
    /\ slots' = 0
    /\ UNCHANGED <<fn_vars, params, capital, trades, open_positions, daily_equity, series_last, opened>>

\* Lines 104-135: one iteration of the exit loop.
ExitCheck ==
    /\ pc = "exit"
    /\ idx <= Len(open_positions)
    /\ LET pos == open_positions[idx]
           reason == ExitReason(pos, day_bar[pos.symbol])
           t == CloseTrade(pos, trading_date, ExitPrice(pos, reason), reason)
       IN  IF reason = ""
           THEN UNCHANGED <<capital, trades, open_positions, closed>>
           ELSE /\ open_positions' = [open_positions EXCEPT ![idx] = t]
                /\ capital' = capital + t.exit_price * t.quantity
                /\ trades' = LedgerAppend(trades, t)
                /\ closed' = Append(closed, t)
    /\ idx' = idx + 1
    /\ UNCHANGED <<fn_vars, params, daily_equity, trading_date, pc, regime, candidates, slots,
                   day_bar, last_close, history_len, nifty_count, series_last, day_idx, opened>>

\* Lines 137-138: the end of the exit loop.
FinishExits ==
    /\ pc = "exit"
    /\ idx > Len(open_positions)
    /\ open_positions' = RemoveClosed(open_positions, closed)
    /\ pc' = "entry"
    /\ UNCHANGED <<fn_vars, params, capital, trades, daily_equity, trading_date, closed, idx,
                   regime, candidates, slots, day_bar, last_close, history_len,
                   nifty_count, series_last, day_idx, opened>>

\* Lines 141-144 with a guard that fails: no regime is detected, nothing is scored.
EntryClosed ==
    /\ pc = "entry"
    /\ ~(HasCapacity(Len(open_positions), max_positions) /\ EnoughIndexHistory(nifty_count))
    /\ pc' = "mark"
    /\ UNCHANGED <<fn_vars, params, capital, trades, open_positions, daily_equity, trading_date,
                   closed, idx, regime, candidates, slots, day_bar, last_close,
                   history_len, nifty_count, series_last, day_idx, opened>>

\* Lines 141-184: the regime is detected; under BULL the universe is scored.
EntryCheck ==
    /\ pc = "entry"
    /\ HasCapacity(Len(open_positions), max_positions)
    /\ EnoughIndexHistory(nifty_count)
    /\ \E f \in RegimeInputs :
          LET r == DetectRegime(nifty_count, f)
          IN  /\ regime' = r
              /\ IF RegimeAllowsEntry(r)
                 THEN \E feat \in [SymbolSet -> FeatureRows] :
                         LET cs == SortCandidates(
                                       BuildCandidates(1, feat, history_len, last_close))
                             sl == FreeSlots(max_positions, Len(open_positions))
                         IN  /\ candidates' = cs
                             /\ slots' = sl
                             /\ pc' = IF FillLimit(cs, sl) >= 1 THEN "fill" ELSE "mark"
                 ELSE /\ pc' = "mark"
                      /\ UNCHANGED <<candidates, slots>>
    /\ idx' = 1
    /\ UNCHANGED <<fn_vars, params, capital, trades, open_positions, daily_equity, trading_date,
                   closed, day_bar, last_close, history_len, nifty_count, series_last, day_idx, opened>>

\* Lines 185-213: one iteration of the fill loop; `after` is where the run
\* goes when the loop ends.
FillStep(after) ==
    /\ pc = "fill"
    /\ idx <= FillLimit(candidates, slots)
    /\ LET cand == candidates[idx]
           entry_price == cand.close
           atr == EntryAtr(cand)
           stop_loss == StopLoss(entry_price, atr)
           risk_per_share == RiskPerShare(entry_price, stop_loss)
           target == Target(entry_price, risk_per_share)
           quantity == Quantity(capital, max_risk_pct, entry_price, risk_per_share)
       IN  IF SkipsCandidate(quantity)
           THEN UNCHANGED <<capital, open_positions, opened>>
           ELSE /\ capital' = capital - entry_price * quantity
                /\ open_positions' = Append(open_positions,
                       NewTrade(cand.symbol, trading_date, entry_price, stop_loss,
                                target, quantity))
                /\ opened' = Append(opened, <<cand.symbol, trading_date>>)
    /\ idx' = idx + 1
    /\ pc' = IF idx + 1 > FillLimit(candidates, slots) THEN after ELSE "fill"
    /\ UNCHANGED <<fn_vars, params, trades, daily_equity, trading_date, closed, regime,
                   candidates, slots, day_bar, last_close, history_len, nifty_count,
                   series_last, day_idx>>

\* Faulty variant of Fill: the exit check runs again after the entries.
FillThenExit == FillStep("exit")

\* Lines 185-215: the fill loop is followed by the equity mark.
Fill == FillStep("mark")

\* Lines 215-225.  The day's locals (closed, regime, candidates, slots, the
\* day's rows) are dead from here on and are cleared.
Mark ==
    /\ pc = "mark"
    /\ daily_equity' = Append(daily_equity, Equity(capital, open_positions, day_bar))
    /\ pc' = "day"
    /\ closed' = <<>>
    /\ idx' = 1
    /\ regime' = "NONE"
    /\ candidates' = <<>>
    /\ slots' = 0
    /\ day_bar' = [s \in SymbolSet |-> NoBar]
    /\ UNCHANGED <<fn_vars, params, capital, trades, open_positions, trading_date, last_close,
                   history_len, nifty_count, series_last, day_idx, opened>>

\* Line 101 with trading_dates exhausted; symbol_data.iloc[-1] of every series is
\* its last row, dated after end_date when the series runs on (drawn for the
\* symbols the force-close reads, which are the held ones).
EndLoop ==
    /\ pc = "day"
    /\ LoopExhausted(RemainingDates)
    /\ \E tail \in [SymbolSet -> TailCloses \cup {0}] :
          /\ \A s \in SymbolSet : tail[s] # 0 => s \in HeldSymbols(open_positions)
          /\ series_last' = [s \in SymbolSet |->
                                IF tail[s] = 0 THEN last_close[s] ELSE tail[s]]
    /\ pc' = "final"
    /\ idx' = 1
    /\ UNCHANGED <<fn_vars, params, capital, trades, open_positions, daily_equity, trading_date,
                   closed, regime, candidates, slots, day_bar, last_close, history_len,
                   nifty_count, day_idx, opened>>

\* Lines 228-240: one iteration of the force-close loop.
ForceClose ==
    /\ pc = "final"
    /\ idx <= Len(open_positions)
    /\ LET pos == open_positions[idx]
           t == CloseTrade(pos, end_date, series_last[pos.symbol], "time_exit")
       IN  /\ open_positions' = [open_positions EXCEPT ![idx] = t]
           /\ capital' = capital + t.exit_price * t.quantity
           /\ trades' = LedgerAppend(trades, t)
    /\ idx' = idx + 1
    /\ UNCHANGED <<fn_vars, params, daily_equity, trading_date, closed, pc, regime, candidates,
                   slots, day_bar, last_close, history_len, nifty_count, series_last, day_idx, opened>>

\* Lines 246-256: the peak equity after the first k marks, and whether a
\* division of the metrics has a zero divisor (peak at line 252, initial_capital
\* at line 256).
RECURSIVE PeakEquity(_, _)
PeakEquity(eqs, k) ==
    IF k = 1 THEN eqs[1]
    ELSE IF eqs[k] > PeakEquity(eqs, k - 1) THEN eqs[k] ELSE PeakEquity(eqs, k - 1)

MetricsRaise(eqs, init) ==
    \/ \E k \in 1..Len(eqs) : PeakEquity(eqs, k) = 0
    \/ init = 0

\* Lines 242-273: the metrics are computed and the result is returned, unless a
\* division raises ZeroDivisionError.
Finish ==
    /\ pc = "final"
    /\ idx > Len(open_positions)
    /\ pc' = IF MetricsRaise(daily_equity, initial_capital) THEN "raised" ELSE "done"
    /\ UNCHANGED <<fn_vars, params, capital, trades, open_positions, daily_equity, trading_date,
                   closed, idx, regime, candidates, slots, day_bar, last_close,
                   history_len, nifty_count, series_last, day_idx, opened>>

Next ==
    \/ BeginDay
    \/ ExitCheck
    \/ FinishExits
    \/ EntryClosed
    \/ EntryCheck
    \/ Fill
    \/ Mark
    \/ EndLoop
    \/ ForceClose
    \/ Finish

Spec == Init /\ [][Next]_vars

\* run_backtest called with any parameters.
SpecAnyConfig == InitAnyConfig /\ [][Next]_vars

-----------------------------------------------------------------------------
(* One call of detect_regime                                               *)

InitRegime ==
    /\ RunIdle
    /\ fn_pc = "call"
    /\ \E n \in RegimeBarCounts, f \in AllRegimeInputs :
          fn_args = [fn |-> "detect_regime", n |-> n, f |-> f]
    /\ fn_ret = <<>>
    /\ fn_local = <<>>
    /\ outside = <<>>

CallDetectRegime ==
    /\ fn_pc = "call"
    /\ fn_args.fn = "detect_regime"
    /\ fn_ret' = RegimeResult(fn_args.n, fn_args.f)
    /\ fn_pc' = "return"
    /\ UNCHANGED <<fn_args, fn_local, outside, run_vars>>

NextRegime == CallDetectRegime

SpecRegime == InitRegime /\ [][NextRegime]_vars

-----------------------------------------------------------------------------
(* One call of one of the five scoring functions of stock_scorer.py        *)

ScoreCalls(fn, rows) == {[fn |-> fn, row |-> r] : r \in rows}

InitScore ==
    /\ RunIdle
    /\ fn_pc = "call"
    /\ fn_args \in ScoreCalls("score_trend_strength", TrendRows)
                   \cup ScoreCalls("score_breakout_quality", BreakoutRows)
                   \cup ScoreCalls("score_volatility", VolatilityRows)
                   \cup ScoreCalls("score_risk", RiskRows)
                   \cup ScoreCalls("score_liquidity", LiquidityRows)
    /\ fn_ret = <<>>
    /\ fn_local = <<>>
    /\ outside = <<>>

Return(fn, value) ==
    /\ fn_pc = "call"
    /\ fn_args.fn = fn
    /\ fn_ret' = value
    /\ fn_pc' = "return"
    /\ UNCHANGED <<fn_args, fn_local, outside, run_vars>>

CallScoreTrendStrength ==
    /\ fn_args.fn = "score_trend_strength"
    /\ Return("score_trend_strength", ScoreTrendStrength(fn_args.row))

CallScoreBreakoutQuality ==
    /\ fn_args.fn = "score_breakout_quality"
    /\ Return("score_breakout_quality", ScoreBreakoutQuality(fn_args.row))

CallScoreVolatility ==
    /\ fn_args.fn = "score_volatility"
    /\ Return("score_volatility", ScoreVolatility(fn_args.row))

CallScoreRisk ==
    /\ fn_args.fn = "score_risk"
    /\ Return("score_risk", ScoreRisk(fn_args.row))

CallScoreLiquidity ==
    /\ fn_args.fn = "score_liquidity"
    /\ Return("score_liquidity", ScoreLiquidity(fn_args.row))

NextScore ==
    \/ CallScoreTrendStrength
    \/ CallScoreBreakoutQuality
    \/ CallScoreVolatility
    \/ CallScoreRisk
    \/ CallScoreLiquidity

SpecScore == InitScore /\ [][NextScore]_vars

-----------------------------------------------------------------------------
(* One call of score_universe                                              *)

InitUniverse ==
    /\ RunIdle
    /\ fn_pc = "call"
    /\ \E rows \in Universes : fn_args = [fn |-> "score_universe", rows |-> rows]
    /\ fn_ret = <<>>
    /\ fn_local = <<>>
    /\ outside = <<>>

CallScoreUniverse ==
    /\ fn_pc = "call"
    /\ fn_args.fn = "score_universe"
    /\ \E order \in SortOrders(fn_args.rows) :
          fn_ret' = RankedFrame(fn_args.rows, order)
    /\ fn_pc' = "return"
    /\ UNCHANGED <<fn_args, fn_local, outside, run_vars>>

NextUniverse == CallScoreUniverse

SpecUniverse == InitUniverse /\ [][NextUniverse]_vars

-----------------------------------------------------------------------------
(* The regime computed for one date (run_scoring.main, run_backtest)       *)
(*                                                                         *)
(* The reference-index file holds `old` bars dated before date 1 and, for  *)
(* each date of 1..MaxIndexDate, either no bar or a bar; a bar is stood    *)
(* for by the factor outcomes detect_regime finds when that bar is the     *)
(* latest row of the frame (the indicators of a row depend on the rows up  *)
(* to it).                                                                 *)

MaxIndexDate == 3
IndexDates == 1..MaxIndexDate
NoIndexBar == [has |-> FALSE, f |-> CHOOSE f \in RegimeInputs : TRUE]
IndexBars == {[has |-> TRUE, f |-> f] : f \in RegimeInputs}
IndexOldCounts == {0, 198, 199}
IndexFiles == [old : IndexOldCounts, bars : [IndexDates -> IndexBars \cup {NoIndexBar}]]

\* len(frame).
IndexBarCount(frame) ==
    frame.old + Cardinality({d \in IndexDates : frame.bars[d].has})

\* Line 47 and `latest = df.iloc[-1]`: the factor outcomes on the row with the
\* greatest date.
LatestFactors(frame) ==
    LET dated == {d \in IndexDates : frame.bars[d].has}
    IN  frame.bars[CHOOSE d \in dated : \A e \in dated : e <= d].f

\* detect_regime(frame): frames of fewer than 200 rows never reach `latest`.
DetectRegimeOn(frame) ==
    IF TooFewBars(IndexBarCount(frame))
    THEN RegimeResult(IndexBarCount(frame), CHOOSE f \in RegimeInputs : TRUE)
    ELSE RegimeResult(IndexBarCount(frame), LatestFactors(frame))

\* nifty_data[nifty_data["date"] <= trading_date].
IndexUpTo(file, d) ==
    [file EXCEPT !.bars = [e \in IndexDates |-> IF e <= d THEN file.bars[e] ELSE NoIndexBar]]

\* The file with other bars after date d.
WithLaterBars(file, d, later) ==
    [file EXCEPT !.bars = [e \in IndexDates |-> IF e <= d THEN file.bars[e] ELSE later[e]]]

\* run_scoring.py lines 86-91: the regime saved for scoring_date.  The frame
\* is the whole NIFTY50.csv; scoring_date is used for the output path only.
ScoringRegime(file, scoring_date) ==
    IF IndexBarCount(file) = 0
    THEN [regime |-> "SIDEWAYS", confidence |-> 5000]
    ELSE DetectRegimeOn(file)

\* backtest_runner.py lines 143-145: the regime of the entry check of
\* trading day `day` ("NONE": fewer than 200 rows, detect_regime is not called).
BacktestRegime(file, day) ==
    LET nifty_up_to == IndexUpTo(file, day)
    IN  IF EnoughIndexHistory(IndexBarCount(nifty_up_to))
        THEN DetectRegimeOn(nifty_up_to)
        ELSE [regime |-> "NONE", confidence |-> 0]

InitRegimeDate ==
    /\ RunIdle
    /\ fn_pc = "call"
    /\ \E fn \in {"run_scoring", "run_backtest"}, file \in IndexFiles, d \in IndexDates :
          \E later \in [IndexDates -> IndexBars \cup {NoIndexBar}] :
             /\ \A e \in IndexDates : e <= d => later[e] = NoIndexBar
             /\ fn_args = [fn |-> fn, date |-> d, nifty |-> file,
                           other |-> WithLaterBars(file, d, later)]
    /\ fn_ret = <<>>
    /\ fn_local = <<>>
    /\ outside = <<>>

\* python3 -m python_ai.run_scoring --date D, on each of the two files.
CallRunScoring ==
    /\ fn_pc = "call"
    /\ fn_args.fn = "run_scoring"
    /\ fn_ret' = <<ScoringRegime(fn_args.nifty, fn_args.date),
                   ScoringRegime(fn_args.other, fn_args.date)>>
    /\ fn_pc' = "return"
    /\ UNCHANGED <<fn_args, fn_local, outside, run_vars>>

\* The regime step of run_backtest on trading day D, on each of the two files.
CallBacktestRegime ==
    /\ fn_pc = "call"
    /\ fn_args.fn = "run_backtest"
    /\ fn_ret' = <<BacktestRegime(fn_args.nifty, fn_args.date),
                   BacktestRegime(fn_args.other, fn_args.date)>>
    /\ fn_pc' = "return"
    /\ UNCHANGED <<fn_args, fn_local, outside, run_vars>>

NextRegimeDate == CallRunScoring \/ CallBacktestRegime

SpecRegimeDate == InitRegimeDate /\ [][NextRegimeDate]_vars

-----------------------------------------------------------------------------
(* python_ai/features/indicators.py                                        *)
(*                                                                         *)
(* Rows are numbered from 1 (pandas index i is row i + 1).  A rolling mean *)
(* of window N is kept as the sum of its window, in units of 1/N; the      *)
(* exponentially weighted columns, which no integer holds exactly, are     *)
(* kept as the list of inputs the recursion has consumed.                  *)

MaxBars == 201
FrameLengths == {1, 14, 20, 50, 200, MaxBars}
BarPatterns == {"rising", "zigzag"}
PatternClose(pattern, k) ==
    CASE pattern = "rising" -> 100 + k
      [] pattern = "zigzag" -> 100 + 5 * (k % 3)

\* An OHLCV frame of n rows, sorted by date.
FrameOf(n, pattern) ==
    [k \in 1..n |-> [date |-> k,
                     high |-> PatternClose(pattern, k) + 2,
                     low |-> PatternClose(pattern, k) - 3,
                     close |-> PatternClose(pattern, k),
                     volume |-> 1000 + 10 * (k % 7)]]

\* The rows probed: the last undefined and the first defined row of each window.
ProbeRows == {1, 2, 13, 14, 19, 20, 49, 50, 199, 200, MaxBars}

RECURSIVE SumRange(_, _, _)
SumRange(x, a, b) ==
    IF a > b THEN 0
    ELSE IF a = b THEN x[a]
    ELSE LET mid == (a + b) \div 2
         IN  SumRange(x, a, mid) + SumRange(x, mid + 1, b)

\* Faulty variant of RollingFirst: the window is centred on the row.
RollingFirstCentred(p, period) == p - period \div 2 + 1

\* series.rolling(window=period, min_periods=period): the first row of the
\* window of row p; the window ends at row p.
RollingFirst(p, period) == p - period + 1

\* series.rolling(window=period, min_periods=period).mean() at row p: NaN
\* unless the window holds `period` rows of the series.
Rolling(x, p, period) ==
    LET a == RollingFirst(p, period)
        b == a + period - 1
    IN  IF a < 1 \/ b > Len(x) THEN NaN ELSE Num(SumRange(x, a, b))

\* Lines 13-15: compute_sma.
compute_sma(x, p, period) == Rolling(x, p, period)

\* series.ewm(span=period, adjust=False).mean() at row p: a recursion over
\* rows 1..p.
compute_ema(x, p, period) == [span |-> period, over |-> SubSeq(x, 1, p)]

\* Lines 23-34: compute_rsi, as the two rolling means it is computed from;
\* diff() is NaN on the first row, which where() turns into 0.
compute_rsi(close, p, period) ==
    LET delta(k) == IF k = 1 THEN 0 ELSE close[k] - close[k - 1]
        gain == [k \in 1..Len(close) |-> Max(delta(k), 0)]
        loss == [k \in 1..Len(close) |-> Max(0 - delta(k), 0)]
    IN  [avg_gain |-> Rolling(gain, p, period), avg_loss |-> Rolling(loss, p, period)]

\* Lines 43-47: the true range of row k; max(axis=1) skips the two NaN of the
\* first row.
TrueRange(df, k) ==
    IF k = 1 THEN df[k].high - df[k].low
    ELSE Max(df[k].high - df[k].low,
             Max(Abs(df[k].high - df[k - 1].close), Abs(df[k].low - df[k - 1].close)))

\* Lines 37-49: compute_atr.
compute_atr(df, p, period) ==
    Rolling([k \in 1..Len(df) |-> TrueRange(df, k)], p, period)

\* Lines 52-60: compute_bollinger_bands; the rolling std is kept as the sum
\* and the sum of squares of its window.
compute_bollinger_bands(x, p, period) ==
    LET middle == compute_sma(x, p, period)
        squares == Rolling([k \in 1..Len(x) |-> x[k] * x[k]], p, period)
    IN  [upper |-> [middle |-> middle, squares |-> squares, side |-> 1],
         middle |-> middle,
         lower |-> [middle |-> middle, squares |-> squares, side |-> -1]]

\* Lines 108-112: compute_obv; sign(diff) is NaN on the first row and cumsum
\* skips it.
compute_obv(df, p) ==
    LET signed(k) == IF k = 1 THEN 0
                     ELSE IF df[k].close > df[k - 1].close THEN df[k].volume
                     ELSE IF df[k].close < df[k - 1].close THEN 0 - df[k].volume
                     ELSE 0
    IN  IF p = 1 THEN NaN ELSE Num(SumRange([k \in 1..Len(df) |-> signed(k)], 2, p))

\* Lines 122-150: the row of the result at row p.  macd and adx are
\* exponentially weighted recursions (lines 63-75, 86-105) over rows 1..p.
FeatureRow(df, p) ==
    LET close == [k \in 1..Len(df) |-> df[k].close]
        volume == [k \in 1..Len(df) |-> df[k].volume]
        bb == compute_bollinger_bands(close, p, 20)
    IN  [bar |-> df[p],
         sma_20 |-> compute_sma(close, p, 20),
         sma_50 |-> compute_sma(close, p, 50),
         sma_200 |-> compute_sma(close, p, 200),
         ema_9 |-> compute_ema(close, p, 9),
         ema_21 |-> compute_ema(close, p, 21),
         rsi_14 |-> compute_rsi(close, p, 14),
         atr_14 |-> compute_atr(df, p, 14),
         bb_upper |-> bb.upper,
         bb_middle |-> bb.middle,
         bb_lower |-> bb.lower,
         macd |-> [fast |-> compute_ema(close, p, 12), slow |-> compute_ema(close, p, 26)],
         adx_14 |-> [atr |-> compute_atr(df, p, 14), over |-> SubSeq(df, 1, p)],
         obv |-> compute_obv(df, p),
         volume_sma_20 |-> compute_sma(volume, p, 20)]

\* Lines 115-152: compute_all_features(df): the copy of df (line 122) with the
\* feature columns added to it.
compute_all_features(df) ==
    [bars |-> df, features |-> [p \in 1..Len(df) |-> FeatureRow(df, p)]]

\* What is kept of a result: the dates of its rows, in order, and its row p.
FrameProbe(result, p) ==
    [dates |-> [k \in 1..Len(result.bars) |-> result.bars[k].date],
     row |-> result.features[p]]

InitFeatures ==
    /\ RunIdle
    /\ fn_pc = "call"
    /\ \E n \in FrameLengths, pattern \in BarPatterns, p \in ProbeRows :
          \E cut \in {p, p + 1, n} :
             /\ p <= cut
             /\ cut <= n
             /\ fn_args = [fn |-> "compute_all_features", df |-> FrameOf(n, pattern),
                           row |-> p, cut |-> cut]
    /\ fn_ret = <<>>
    /\ fn_local = <<>>
    /\ outside = <<>>

\* compute_all_features on the frame and on its first `cut` rows.
CallComputeAllFeatures ==
    /\ fn_pc = "call"
    /\ fn_args.fn = "compute_all_features"
    /\ fn_ret' = [whole |-> FrameProbe(compute_all_features(fn_args.df), fn_args.row),
                  truncated |-> FrameProbe(compute_all_features(
                                               SubSeq(fn_args.df, 1, fn_args.cut)),
                                           fn_args.row)]
    /\ fn_pc' = "return"
    /\ UNCHANGED <<fn_args, fn_local, outside, run_vars>>

NextFeatures == CallComputeAllFeatures

SpecFeatures == InitFeatures /\ [][NextFeatures]_vars

-----------------------------------------------------------------------------
(* scripts/backfill_ai_scores.py and the files python_ai.run_scoring writes *)
(*                                                                         *)
(* outside.files is the output directory, a set of <<date, file name>>;    *)
(* outside.invoked lists the run_scoring subprocesses started, in order.   *)

MaxScoreDate == 2
MaxRuns == 2
ScoreDates == 1..MaxScoreDate

\* Duplicate-free lists of dates (--dates, or get_trading_dates).
DateLists ==
    {l \in UNION {[1..n -> ScoreDates] : n \in 1..MaxScoreDate} :
        \A a, b \in 1..Len(l) : a # b => l[a] # l[b]}

\* market_regime.py line 152: the file save_regime writes for a date.
RegimeFile(d) == <<d, "market_regime.json">>

\* stock_scorer.py line 265: the file save_scores writes for a date.
SavedScoresFile(d) == <<d, "stock_scores.parquet">>

\* backfill_ai_scores.py line 64: the file get_existing_scores looks for.
ExistingScoresFile(d) == <<d, "stock_scores.json">>

\* Lines 58-69: get_existing_scores(output_dir).
get_existing_scores(files) == {d \in ScoreDates : ExistingScoresFile(d) \in files}

\* What one run of python_ai.run_scoring does: it exits 1 before writing
\* anything (run_scoring.py lines 79-82), or after save_regime when no symbol
\* has features (lines 95, 114-116), or writes both files and exits 0.
ScoringOutcomes == {"no_universe", "no_features", "ok"}
FilesWritten(d, outcome) ==
    CASE outcome = "no_universe" -> {}
      [] outcome = "no_features" -> {RegimeFile(d)}
      [] outcome = "ok" -> {RegimeFile(d), SavedScoresFile(d)}

\* Lines 204-206: the dates left to process.
DatesToProcess(dates, skip_existing, files) ==
    IF skip_existing
    THEN SelectSeq(dates, LAMBDA d : d \notin get_existing_scores(files))
    ELSE dates

InitBackfill ==
    /\ RunIdle
    /\ fn_pc = "shell"
    /\ fn_args = <<>>
    /\ fn_ret = <<>>
    /\ fn_local = <<>>
    /\ outside = [files |-> {}, runs |-> 0, invoked |-> <<>>]

\* main, lines 105-221: the arguments are parsed and the dates chosen; a dry
\* run ends here.
BackfillStart ==
    /\ fn_pc = "shell"
    /\ outside.runs < MaxRuns
    /\ \E dates \in DateLists, skip_existing \in BOOLEAN, dry_run \in BOOLEAN :
          /\ fn_args' = [dates |-> dates, skip_existing |-> skip_existing,
                         dry_run |-> dry_run]
          /\ fn_local' = [dates_to_process |->
                              DatesToProcess(dates, skip_existing, outside.files),
                          i |-> 1, success_count |-> 0, failed_dates |-> <<>>]
          /\ fn_pc' = IF dry_run THEN "shell" ELSE "loop"
    /\ outside' = [outside EXCEPT !.runs = @ + 1]
    /\ UNCHANGED <<fn_ret, run_vars>>

\* Lines 223-234 and 72-102: one iteration of the loop, which runs
\* python_ai.run_scoring for the next date and counts its exit status.
BackfillStep ==
    /\ fn_pc = "loop"
    /\ fn_local.i <= Len(fn_local.dates_to_process)
    /\ LET scoring_date == fn_local.dates_to_process[fn_local.i]
       IN  \E outcome \in ScoringOutcomes :
              /\ outside' = [outside EXCEPT
                                !.files = @ \cup FilesWritten(scoring_date, outcome),
                                !.invoked = Append(@, [run |-> outside.runs,
                                                       date |-> scoring_date,
                                                       ok |-> outcome = "ok"])]
              /\ fn_local' = [fn_local EXCEPT
                                !.i = @ + 1,
                                !.success_count = IF outcome = "ok" THEN @ + 1 ELSE @,
                                !.failed_dates = IF outcome = "ok" THEN @
                                                 ELSE Append(@, scoring_date)]
    /\ UNCHANGED <<fn_pc, fn_args, fn_ret, run_vars>>

\* Lines 236-249: the summary; the script ends.
BackfillEnd ==
    /\ fn_pc = "loop"
    /\ fn_local.i > Len(fn_local.dates_to_process)
    /\ fn_pc' = "shell"
    /\ UNCHANGED <<fn_args, fn_ret, fn_local, outside, run_vars>>

NextBackfill == BackfillStart \/ BackfillStep \/ BackfillEnd

SpecBackfill == InitBackfill /\ [][NextBackfill]_vars

-----------------------------------------------------------------------------
(* python_ai/data/fetch_dhan.py: the retry loop of fetch_chunk               *)
(*                                                                         *)
(* fn_args.responses[k] is the status code of the server's answer to the   *)
(* k-th request; outside.requests counts the requests sent and             *)
(* outside.slept lists the waits of time.sleep, in seconds.                *)

MAX_RETRIES == 5
RETRY_BASE_DELAY == 2

\* The answers of the server to MAX_RETRIES + 2 requests, one more than the
\* loop can send.
ResponseSequences == [1..(MAX_RETRIES + 2) -> {200, 204, 401, 429, 500}]

\* Faulty variant of RetryWait: the wait grows linearly.
RetryWaitLinear(attempt) == RETRY_BASE_DELAY * (attempt + 1)

\* Line 112.
RetryWait(attempt) == RETRY_BASE_DELAY * (2 ^ attempt)

InitFetch ==
    /\ RunIdle
    /\ fn_pc = "request"
    /\ \E responses \in ResponseSequences : fn_args = [responses |-> responses]
    /\ fn_ret = <<>>
    /\ fn_local = [attempt |-> 0, status_code |-> 0]
    /\ outside = [requests |-> 0, slept |-> <<>>]

\* Lines 104-105: the next value of range(MAX_RETRIES + 1) and requests.post.
SendRequest ==
    /\ fn_pc = "request"
    /\ fn_local.attempt < MAX_RETRIES + 1
    /\ outside' = [outside EXCEPT !.requests = @ + 1]
    /\ fn_local' = [fn_local EXCEPT
                      !.status_code = fn_args.responses[outside.requests + 1]]
    /\ fn_pc' = "status"
    /\ UNCHANGED <<fn_args, fn_ret, run_vars>>

\* Lines 107-108.
RaiseAuthentication ==
    /\ fn_pc = "status"
    /\ fn_local.status_code = 401
    /\ fn_ret' = "ValueError: Authentication failed (401)"
    /\ fn_pc' = "raised"
    /\ UNCHANGED <<fn_args, fn_local, outside, run_vars>>

\* Lines 110-115: a 429 with retries left: sleep, then the next iteration.
RetryAfterRateLimit ==
    /\ fn_pc = "status"
    /\ fn_local.status_code = 429
    /\ fn_local.attempt < MAX_RETRIES
    /\ outside' = [outside EXCEPT !.slept = Append(@, RetryWait(fn_local.attempt))]
    /\ fn_local' = [fn_local EXCEPT !.attempt = @ + 1]
    /\ fn_pc' = "request"
    /\ UNCHANGED <<fn_args, fn_ret, run_vars>>

\* Lines 116-117: a 429 on the last attempt.
RaiseRateLimited ==
    /\ fn_pc = "status"
    /\ fn_local.status_code = 429
    /\ ~(fn_local.attempt < MAX_RETRIES)
    /\ fn_ret' = "ValueError: Rate limited (429)"
    /\ fn_pc' = "raised"
    /\ UNCHANGED <<fn_args, fn_local, outside, run_vars>>

\* Lines 119-120: resp.raise_for_status() raises on a 4xx or 5xx status.
RaiseForStatus ==
    /\ fn_pc = "status"
    /\ fn_local.status_code \notin {401, 429, 200}
    /\ fn_local.status_code >= 400
    /\ fn_ret' = "HTTPError"
    /\ fn_pc' = "raised"
    /\ UNCHANGED <<fn_args, fn_local, outside, run_vars>>

\* Line 122: break (a 200, or another status raise_for_status lets through);
\* lines 124-139 parse the body and send nothing.
BreakLoop ==
    /\ fn_pc = "status"
    /\ fn_local.status_code \notin {401, 429}
    /\ fn_local.status_code < 400
    /\ fn_ret' = "DataFrame"
    /\ fn_pc' = "return"
    /\ UNCHANGED <<fn_args, fn_local, outside, run_vars>>

NextFetch ==
    \/ SendRequest
    \/ RaiseAuthentication
    \/ RetryAfterRateLimit
    \/ RaiseRateLimited
    \/ RaiseForStatus
    \/ BreakLoop

\* The process is never suspended for ever: requests.post has a timeout and
\* every sleep is finite.
SpecFetch == InitFetch /\ [][NextFetch]_vars /\ WF_vars(NextFetch)

-----------------------------------------------------------------------------
(* Properties                                                              *)

\* The elements of a list.
Range(seq) == {seq[k] : k \in 1..Len(seq)}

\* The run is inside the body of the day loop.
InDay == pc \in {"exit", "entry", "fill", "mark"}

\* The exit check of the current day is over.
AfterExits == pc \in {"entry", "fill", "mark"}

\* C1: with positive initial_capital, max_risk_pct and bar prices, the capital
\* balance is >= 0 in every state of a run: after every exit, after every
\* entry (whose cost never exceeds the capital at hand) and after the final
\* force-close.
C1_CapitalNeverNegative ==
    (initial_capital > 0 /\ max_risk_pct > 0) => capital >= 0

\* An entry whose cost was clamped to the capital has spent all of it.
C1_Witness ==
    /\ pc = "mark"
    /\ capital = 0
    /\ \E k \in 1..Len(open_positions) :
          /\ open_positions[k].entry_date = trading_date
          /\ open_positions[k].entry_price * open_positions[k].quantity = initial_capital

\* C2: the number of open positions never exceeds max_positions, so a day that
\* starts its entry check with s free slots opens at most s positions and a
\* day without a free slot opens none.
C2_OpenWithinMax ==
    /\ Len(open_positions) <= max_positions
    /\ pc = "fill" => /\ slots = max_positions - (Len(open_positions) - Cardinality(
                                    {k \in 1..Len(open_positions) :
                                        open_positions[k].entry_date = trading_date}))
                      /\ Cardinality({k \in 1..Len(open_positions) :
                                        open_positions[k].entry_date = trading_date})
                            <= slots

\* Two positions are opened on one day into two free slots.
C2_Witness ==
    /\ pc = "mark"
    /\ max_positions = 2
    /\ Len(open_positions) = 2
    /\ \A k \in 1..2 : open_positions[k].entry_date = trading_date

\* C3: in the exit check a position whose bar has low <= stop_loss and
\* high >= target is closed with reason stop_loss at the stop price; it is
\* closed with reason target, at the target price, only when high >= target
\* and low > stop_loss; a position the check leaves open had neither.
C3_StopBeforeTarget ==
    InDay =>
      /\ \A k \in 1..Len(trades) :
            LET t == trades[k]
                bar == day_bar[t.symbol]
            IN  t.exit_date = trading_date =>
                  /\ bar.has
                  /\ t.exit_reason \in {"stop_loss", "target"}
                  /\ t.exit_reason = "stop_loss" =>
                        bar.low <= t.stop_loss /\ t.exit_price = t.stop_loss
                  /\ t.exit_reason = "target" =>
                        /\ bar.high >= t.target
                        /\ bar.low > t.stop_loss
                        /\ t.exit_price = t.target
      /\ AfterExits =>
            \A k \in 1..Len(open_positions) :
                LET pos == open_positions[k]
                    bar == day_bar[pos.symbol]
                IN  (pos.entry_date < trading_date /\ bar.has) =>
                        bar.low > pos.stop_loss /\ bar.high < pos.target

\* A position is closed by its stop on a bar that also reached its target.
C3_Witness ==
    /\ InDay
    /\ \E k \in 1..Len(trades) :
          /\ trades[k].exit_date = trading_date
          /\ trades[k].exit_reason = "stop_loss"
          /\ trades[k].exit_price = trades[k].stop_loss
          /\ day_bar[trades[k].symbol].low <= trades[k].stop_loss
          /\ day_bar[trades[k].symbol].high >= trades[k].target

\* The positions of a list that were opened on date d.
OpenedOn(open, d) == {k \in 1..Len(open) : open[k].entry_date = d}

\* What identifies a position: one is created per symbol and day at most.
Key(t) == <<t.symbol, t.entry_date>>

\* C4: every position has an integer quantity >= 1; a candidate whose quantity
\* comes out <= 0 (risk_per_share <= 0, a risk budget below one share's risk,
\* or capital below one share's price) opens no position and leaves capital
\* and the open positions as they were, and any other candidate is opened.
C4_Step ==
    /\ \A k \in 1..Len(open_positions') :
          open_positions'[k].quantity \in Nat \ {0}
    /\ \A k \in 1..Len(trades') : trades'[k].quantity \in Nat \ {0}
    /\ pc = "fill" =>
          LET cand == candidates[idx]
              p == cand.close
              a == IF cand.atr.nan THEN (2 * p) \div 100 ELSE cand.atr.v
              tooSmall == \/ 2 * a <= 0
                          \/ capital * max_risk_pct < 100 * (2 * a)
                          \/ capital < p
          IN  IF tooSmall
              THEN capital' = capital /\ open_positions' = open_positions
              ELSE Len(open_positions') = Len(open_positions) + 1

\* C4: every step keeps quantities >= 1 and a skipped candidate changes nothing.
C4_QuantityPositive == [][C4_Step]_vars

\* The fill loop has taken two candidates, opened one and skipped the other.
C4_Witness ==
    /\ pc = "mark"
    /\ Len(candidates) = 2
    /\ idx = 3
    /\ Cardinality(OpenedOn(open_positions, trading_date)) = 1

\* C5: every position is closed once and stays closed: ledger entries carry
\* one of the three exit reasons and are pairwise different positions, each
\* one a position that was opened; outside the exit check and the force-close
\* no open position is in the ledger or carries an exit; and when the run
\* returns the ledger holds every position ever opened, once.
C5_OneLifeCycle ==
    /\ \A k \in 1..Len(trades) :
          /\ trades[k].exit_reason \in {"stop_loss", "target", "time_exit"}
          /\ Key(trades[k]) \in Range(opened)
    /\ \A i, j \in 1..Len(trades) : i # j => Key(trades[i]) # Key(trades[j])
    /\ \A i, j \in 1..Len(opened) : i # j => opened[i] # opened[j]
    /\ \A k \in 1..Len(open_positions) : Key(open_positions[k]) \in Range(opened)
    /\ pc \in {"day", "entry", "fill", "mark"} =>
          \A k \in 1..Len(open_positions) :
              /\ open_positions[k].exit_reason = ""
              /\ \A j \in 1..Len(trades) : Key(trades[j]) # Key(open_positions[k])
    /\ pc = "done" =>
          /\ Len(trades) = Len(opened)
          /\ {Key(trades[k]) : k \in 1..Len(trades)} = Range(opened)

\* A run returns a ledger with a stop exit, a target exit and a time exit.
C5_Witness ==
    /\ pc = "done"
    /\ {trades[k].exit_reason : k \in 1..Len(trades)} = {"stop_loss", "target", "time_exit"}

\* C6: the ledger is append-only: every step leaves the ledger it found as a
\* prefix of the ledger it leaves.
C6_Step ==
    /\ Len(trades) <= Len(trades')
    /\ SubSeq(trades', 1, Len(trades)) = trades

\* C6: every step leaves the old ledger as a prefix of the new one.
C6_LedgerAppendOnly == [][C6_Step]_vars

\* The ledger has grown three times.
C6_Witness == Len(trades) = 3

\* C7: a trade has reason time_exit exactly when its position was still open
\* once the last trading day had been processed: such a trade exists only
\* after every trading date has been taken and marked, it is dated end_date
\* and is one of the positions left open; every other trade was closed by the
\* exit check of a trading date; and the run returns with every position that
\* was left open closed by time_exit.
C7_TimeExitOnlyAtEnd ==
    /\ \A k \in 1..Len(trades) :
          LET t == trades[k]
          IN  IF t.exit_reason = "time_exit"
              THEN /\ pc \in {"final", "done"}
                   /\ RemainingDates = <<>>
                   /\ Len(daily_equity) = Len(TradingDates(start_date, end_date))
                   /\ t.exit_date = end_date
                   /\ t \in Range(open_positions)
              ELSE /\ t.exit_reason \in {"stop_loss", "target"}
                   /\ t.exit_date \in Range(TradingDates(start_date, end_date))
                   /\ t.exit_date <= trading_date
                   /\ pc \in {"day", "entry", "fill", "mark"} =>
                         t \notin Range(open_positions)
    /\ pc = "done" =>
          \A k \in 1..Len(open_positions) :
              /\ open_positions[k].exit_reason = "time_exit"
              /\ open_positions[k] \in Range(trades)

\* A position opened on the first of two trading days outlives the second
\* day's exit check and is closed by time_exit, next to a target exit.
C7_Witness ==
    /\ pc = "done"
    /\ \E k \in 1..Len(trades) :
          /\ trades[k].exit_reason = "time_exit"
          /\ trades[k].entry_date < trading_date
    /\ \E k \in 1..Len(trades) : trades[k].exit_reason = "target"

\* C8: trading dates are taken in strictly ascending order, each after the
\* day before was marked; within a day the steps run exit check, entry check,
\* fills, mark: the ledger grows only in the exit check (or the final
\* force-close), positions are opened only in the fill loop that follows it,
\* the mark follows the fills; and no position is closed by stop or target on
\* the day it was opened.
C8_Step ==
    /\ trading_date' # trading_date =>
          /\ pc = "day" /\ pc' = "exit"
          /\ trading_date' > trading_date
          /\ Len(daily_equity) = day_idx
    /\ pc = "exit" => /\ pc' \in {"exit", "entry"}
                      /\ Len(open_positions') <= Len(open_positions)
                      /\ daily_equity' = daily_equity
    /\ pc = "entry" => /\ pc' \in {"fill", "mark"}
                       /\ UNCHANGED <<trades, open_positions, capital, daily_equity>>
    /\ pc = "fill" => /\ pc' \in {"fill", "mark"}
                      /\ UNCHANGED <<trades, daily_equity>>
    /\ pc = "mark" => /\ pc' = "day"
                      /\ Len(daily_equity') = Len(daily_equity) + 1
                      /\ UNCHANGED <<trades, open_positions, capital>>
    /\ trades' # trades => pc \in {"exit", "final"}
    /\ Len(open_positions') > Len(open_positions) => pc = "fill"
    /\ \A k \in 1..Len(trades') :
          trades'[k].exit_reason \in {"stop_loss", "target"} =>
              trades'[k].exit_date > trades'[k].entry_date

\* C8: every step follows the order of days and of the steps within a day.
C8_DayOrder == [][C8_Step]_vars

\* With one slot, a position exits at its target and on the same day a new
\* one is opened in its slot, sized on more than the initial capital.
C8_Witness ==
    /\ pc = "mark"
    /\ max_positions = 1
    /\ \E k \in 1..Len(trades) :
          trades[k].exit_date = trading_date /\ trades[k].exit_reason = "target"
    /\ \E k \in 1..Len(open_positions) :
          LET pos == open_positions[k]
          IN  /\ pos.entry_date = trading_date
              /\ pos.quantity * 100 * (pos.entry_price - pos.stop_loss)
                    > initial_capital * max_risk_pct

\* C9: a position is opened only in a state with fewer than max_positions open
\* positions, at least 200 index bars up to the day and regime BULL; while
\* the day's regime is SIDEWAYS or BEAR, or the index has fewer than 200 bars,
\* no position is added and capital is not debited.
C9_Step ==
    /\ Len(open_positions') > Len(open_positions) =>
          /\ Len(open_positions) < max_positions
          /\ nifty_count >= 200
          /\ regime = "BULL"
    /\ (InDay /\ (nifty_count < 200 \/ regime \in {"SIDEWAYS", "BEAR"})) =>
          /\ Len(open_positions') <= Len(open_positions)
          /\ capital' >= capital

\* C9: every step that opens a position passes the three entry guards.
C9_EntryGate == [][C9_Step]_vars

\* A position is opened on the day the index reaches 200 bars, under BULL.
C9_Witness ==
    /\ pc = "mark"
    /\ nifty_count = 200
    /\ regime = "BULL"
    /\ OpenedOn(open_positions, trading_date) # {}

\* C10: a filled candidate with entry price p and ATR a (2% of p when
\* undefined) gets stop p - 2a, target p + 4a and quantity
\* min(floor(capital * pct / (100 * 2a)), floor(capital / p)), and capital is
\* debited by p * quantity; with capital 100000, 1 percent, p = 100, a = 2
\* that is stop 96, target 108, quantity 250, and its stop exit has pnl -1000.
C10_Step ==
    /\ (pc = "fill" /\ Len(open_positions') = Len(open_positions) + 1) =>
          LET cand == candidates[idx]
              p == cand.close
              a == IF cand.atr.nan THEN (2 * p) \div 100 ELSE cand.atr.v
              pos == open_positions'[Len(open_positions')]
              byRisk == (capital * max_risk_pct) \div (100 * (2 * a))
              byCash == capital \div p
          IN  /\ pos.symbol = cand.symbol
              /\ pos.entry_price = p
              /\ pos.stop_loss = p - 2 * a
              /\ pos.target = p + 4 * a
              /\ pos.quantity = Min(byRisk, byCash)
              /\ capital' = capital - p * pos.quantity
              /\ (capital = 100000 /\ max_risk_pct = 1 /\ p = 100 /\ a = 2) =>
                    pos.stop_loss = 96 /\ pos.target = 108 /\ pos.quantity = 250
    /\ \A k \in 1..Len(trades') :
          LET t == trades'[k]
          IN  (t.entry_price = 100 /\ t.stop_loss = 96 /\ t.quantity = 250
                 /\ t.exit_reason = "stop_loss") => t.pnl = -1000

\* C10: every fill sets stop, target, quantity and debit by the sizing rule.
C10_Sizing == [][C10_Step]_vars

\* The worked example: 250 shares at 100, stopped out at 96 for -1000.
C10_Witness ==
    /\ initial_capital = 100000
    /\ max_risk_pct = 1
    /\ \E k \in 1..Len(trades) :
          /\ trades[k].entry_price = 100
          /\ trades[k].stop_loss = 96
          /\ trades[k].target = 108
          /\ trades[k].quantity = 250
          /\ trades[k].exit_reason = "stop_loss"
          /\ trades[k].pnl = -1000

\* The position of a symbol in the universe list passed to run_backtest.
UniverseIndex(s) == CHOOSE k \in 1..Len(Symbols) : Symbols[k] = s

\* C11: the one order-sensitive step of run_backtest, the candidate sort, leaves
\* no freedom: the day's candidates are in descending entry-ranking order, and
\* candidates of equal entry-ranking value stand in universe input order, so
\* the same inputs always fill the same candidates in the same order.
C11_TiesInUniverseOrder ==
    \A i, j \in 1..Len(candidates) :
        i < j =>
           \/ EntryRank(candidates[i]) > EntryRank(candidates[j])
           \/ /\ EntryRank(candidates[i]) = EntryRank(candidates[j])
              /\ UniverseIndex(candidates[i].symbol) < UniverseIndex(candidates[j].symbol)

\* Two candidates of equal rank and different ATR compete for a single slot, so
\* the order of the tie decides which trade enters the ledger.
C11_Witness ==
    /\ pc = "fill"
    /\ slots = 1
    /\ Len(candidates) = 2
    /\ EntryRank(candidates[1]) = EntryRank(candidates[2])
    /\ candidates[1].atr # candidates[2].atr
    /\ candidates[1].symbol = Symbols[1]

\* C12: a run with initial_capital <= 0 or max_positions <= 0 processes no
\* trading day (no exit check, entry check or equity mark) and returns no result.
C12_InvalidConfigRejected ==
    (initial_capital <= 0 \/ max_positions <= 0) =>
        /\ pc \in {"day", "raised"}
        /\ day_idx = 0
        /\ daily_equity = <<>>

\* What the code does with such parameters: every trading day is processed and
\* marked, and the run ends with a result, or with ZeroDivisionError after the
\* last day when initial_capital is 0.
C12_RunsToTheEnd ==
    (pc \in {"done", "raised"}) =>
        /\ Len(daily_equity) = Len(TradingDates(start_date, end_date))
        /\ (pc = "raised") = (initial_capital = 0)

\* An invalid run that returned a result after marking two days.
C12_Witness ==
    /\ max_positions <= 0
    /\ pc = "done"
    /\ Len(daily_equity) = 2

\* A call of detect_regime has returned.
RegimeReturned == fn_pc = "return" /\ fn_args.fn = "detect_regime"

\* C13: with fewer than 200 bars detect_regime returns SIDEWAYS with confidence
\* exactly 0.5 whatever the bars hold: the factor outcomes have no influence.
C13_ShortHistoryFallback ==
    (RegimeReturned /\ fn_args.n < 200) =>
        fn_ret = [regime |-> "SIDEWAYS", confidence |-> 5000]

\* A frame of 199 bars on which every factor is bullish still gives SIDEWAYS 0.5.
C13_Witness ==
    /\ RegimeReturned
    /\ fn_args.n = 199
    /\ fn_args.f = [sma200 |-> "above", cross |-> "above", ema21 |-> "above",
                     rsi |-> "gt55", chg20 |-> "up", adx_gt25 |-> TRUE]
    /\ fn_ret.regime = "SIDEWAYS"
    /\ fn_ret.confidence = 5000

\* conf (in units of 1e-4) is the 4-decimal rounding of num / den.
IsRounded(conf, num, den) == 2 * Abs(conf * den - 10000 * num) <= den

\* C14: with bull_score + bear_score > 0 the regime is BULL iff bull_ratio >= 0.65,
\* BEAR iff bull_ratio <= 0.35 and SIDEWAYS otherwise, and the confidence, reported
\* to 4 decimals, is min(ratio, 0.95) for BULL, min(1 - ratio, 0.95) for BEAR and
\* 1 - 2*|ratio - 0.5| for SIDEWAYS; 0.85 against 0.15 gives BULL with 0.85.
C14_Classification ==
    (RegimeReturned /\ fn_args.n >= 200) =>
        LET bull == FactorScores(fn_args.f).bull
            bear == FactorScores(fn_args.f).bear
            total == bull + bear
        IN  total > 0 =>
              /\ (fn_ret.regime = "BULL") = (100 * bull >= 65 * total)
              /\ (fn_ret.regime = "BEAR") = (100 * bull <= 35 * total)
              /\ (fn_ret.regime = "SIDEWAYS") =
                     (100 * bull < 65 * total /\ 100 * bull > 35 * total)
              /\ fn_ret.regime = "BULL" =>
                     IF 100 * bull <= 95 * total
                     THEN IsRounded(fn_ret.confidence, bull, total)
                     ELSE fn_ret.confidence = 9500
              /\ fn_ret.regime = "BEAR" =>
                     IF 100 * bear <= 95 * total
                     THEN IsRounded(fn_ret.confidence, bear, total)
                     ELSE fn_ret.confidence = 9500
              /\ fn_ret.regime = "SIDEWAYS" =>
                     IsRounded(fn_ret.confidence, total - Abs(2 * bull - total), total)
              /\ (bull = 85 /\ bear = 15) =>
                     fn_ret = [regime |-> "BULL", confidence |-> 8500]

\* The scenario of the claim: bull_score 0.85, bear_score 0.15.
C14_Witness ==
    /\ RegimeReturned
    /\ fn_args.n >= 200
    /\ FactorScores(fn_args.f) = [bull |-> 85, bear |-> 15]
    /\ fn_ret = [regime |-> "BULL", confidence |-> 8500]

\* The inclusive boundaries are met: 0.65 against 0.35 is BULL, 0.35 against 0.65 BEAR.
C14_BoundaryReached ==
    /\ RegimeReturned
    /\ fn_args.n >= 200
    /\ FactorScores(fn_args.f) = [bull |-> 65, bear |-> 35]
    /\ fn_ret = [regime |-> "BULL", confidence |-> 6500]

\* A call of the scoring function fn has returned.
Returned(fn) == fn_pc = "return" /\ fn_args.fn = fn

C15_DegenerateRowScored ==
    /\ Returned("score_breakout_quality")
    /\ fn_args.row.close = 0
    /\ fn_args.row.volume = 0
    /\ fn_args.row.bb_lower = Num(10000)
    /\ fn_args.row.bb_upper = Num(10000)
    /\ fn_args.row.macd_histogram = NaN
    /\ fn_ret = 0

\* The sum of the weights of the components whose inputs are defined.
TrendDefinedWeights(row) ==
    (IF NotNa(row.sma_20) THEN 500 ELSE 0)
      + (IF NotNa(row.sma_50) THEN 1000 ELSE 0)
      + (IF NotNa(row.sma_200) THEN 1500 ELSE 0)
      + (IF NotNa(row.ema_9) /\ NotNa(row.ema_21) /\ NotNa(row.sma_50) THEN 2000 ELSE 0)
      + (IF NotNa(row.macd_histogram) THEN 1500 ELSE 0)
      + (IF NotNa(row.rsi_14) THEN 1500 ELSE 0)
      + (IF NotNa(row.adx_14) THEN 2000 ELSE 0)


\* C16: score_trend_strength returns the earned weight divided by the sum of the
\* weights of the components whose inputs are defined, so that an undefined
\* component counts neither in the numerator nor in the denominator.
C16_NormalisedByDefinedWeights ==
    Returned("score_trend_strength") =>
        LET defined == TrendDefinedWeights(fn_args.row)
        IN  defined > 0 => fn_ret * defined = TrendEarned(fn_args.row) * 10000

\* What the code returns: the earned weight over the sum of all seven weights,
\* which is 1.0, whether or not the inputs are defined.
C16_NormalisedByAllWeights ==
    Returned("score_trend_strength") => fn_ret = TrendEarned(fn_args.row)

\* A row without SMA200 that satisfies every other component scores 0.85, not 1.0.
C16_FailingRow ==
    /\ Returned("score_trend_strength")
    /\ fn_args.row = [close |-> 10000, sma_20 |-> Num(9000), sma_50 |-> Num(9000),
                       sma_200 |-> NaN, ema_9 |-> Num(9900), ema_21 |-> Num(9500),
                       macd_histogram |-> Num(1), rsi_14 |-> Num(50), adx_14 |-> Num(50)]
    /\ TrendEarned(fn_args.row) = TrendDefinedWeights(fn_args.row)
    /\ fn_ret = 8500

\* ATR/close of a row in basis points, and the row with another ATR.
InBand(bp) == 100 <= bp /\ bp <= 300
WithAtr(row, a) == [row EXCEPT !.atr_14 = Num(a)]

\* C17: score_volatility returns 0.5 when ATR is undefined or close is 0; a
\* ratio inside [1%, 3%] scores in [0.8, 1.0]; a ratio outside the band scores no
\* higher than any ratio inside it; and outside the band a ratio farther from
\* the band scores no higher than a nearer one on the same side.
C17_BandScoresHighest ==
    Returned("score_volatility") =>
        LET row == fn_args.row
        IN  IF row.atr_14.nan \/ row.close = 0 THEN fn_ret = 5000
            ELSE LET bp == AtrPct(row)
                 IN  /\ InBand(bp) => (8000 <= fn_ret /\ fn_ret <= 10000)
                     /\ ~InBand(bp) =>
                           \A a \in AtrValues :
                              InBand(AtrPct(WithAtr(row, a))) =>
                                 fn_ret <= ScoreVolatility(WithAtr(row, a))
                     /\ \A a \in AtrValues :
                           LET other == AtrPct(WithAtr(row, a))
                           IN  ((other < bp /\ bp < 100) \/ (other > bp /\ bp > 300)) =>
                                  ScoreVolatility(WithAtr(row, a)) <= fn_ret

\* What holds of the code: the fallback, the range inside the band and the
\* decay on each side, but not the order between the band and its outside.
C17_BandRangeAndDecay ==
    Returned("score_volatility") =>
        LET row == fn_args.row
        IN  IF row.atr_14.nan \/ row.close = 0 THEN fn_ret = 5000
            ELSE LET bp == AtrPct(row)
                 IN  /\ InBand(bp) => (8000 <= fn_ret /\ fn_ret <= 10000)
                     /\ \A a \in AtrValues :
                           LET other == AtrPct(WithAtr(row, a))
                           IN  ((other < bp /\ bp < 100) \/ (other > bp /\ bp > 300)) =>
                                  ScoreVolatility(WithAtr(row, a)) <= fn_ret

\* A ratio of 0.99%, just below the band, scores 0.99; the band edge 1% scores 0.8.
C17_FailingRow ==
    /\ Returned("score_volatility")
    /\ fn_args.row = [close |-> 10000, atr_14 |-> Num(99)]
    /\ fn_ret = 9900
    /\ ScoreVolatility(WithAtr(fn_args.row, 100)) = 8000

\* The ranks are a bijection onto 1..N over the N scored rows, every row carries
\* its composite score, and the composite score does not increase with the rank.
RankedDescending ==
    LET rows == fn_args.rows
        N == Len(rows)
    IN  /\ Len(fn_ret) = N
        /\ {fn_ret[k].rank : k \in 1..N} = 1..N
        /\ {fn_ret[k].index : k \in 1..N} = 1..N
        /\ \A k \in 1..N :
              fn_ret[k].composite_score =
                 30 * rows[fn_ret[k].index].trend + 25 * rows[fn_ret[k].index].breakout
                    + 20 * rows[fn_ret[k].index].liquidity
                    + 15 * rows[fn_ret[k].index].volatility
                    + 10 * (10000 - rows[fn_ret[k].index].risk)
        /\ \A i, j \in 1..N :
              fn_ret[i].rank < fn_ret[j].rank =>
                 fn_ret[i].composite_score >= fn_ret[j].composite_score

\* Rows of equal composite score are ranked in their input order.
TiesInInputOrder ==
    \A i, j \in 1..Len(fn_ret) :
        (fn_ret[i].composite_score = fn_ret[j].composite_score
           /\ fn_ret[i].index < fn_ret[j].index) => fn_ret[i].rank < fn_ret[j].rank

\* C18: score_universe ranks the N scored symbols 1..N bijectively, by composite
\* score 0.30 trend + 0.25 breakout + 0.20 liquidity + 0.15 volatility
\* + 0.10 (1 - risk) descending, symbols of equal composite score in input order.
C18_StableRanking ==
    Returned("score_universe") => (RankedDescending /\ TiesInInputOrder)

\* What holds of the code: the ranking, without the order of the ties.
C18_Ranking == Returned("score_universe") => RankedDescending

\* Two symbols with the same composite score, the later one ranked first.
C18_TieReordered ==
    /\ Returned("score_universe")
    /\ Len(fn_ret) = 2
    /\ fn_ret[1].composite_score = fn_ret[2].composite_score
    /\ fn_ret[1].index = 2
    /\ fn_ret[1].rank = 1

\* The symbols of the positions opened on day d.
SymbolsOpenedOn(open, d) == {open[k].symbol : k \in OpenedOn(open, d)}

\* The claim's ordering value of a candidate, in units of 1e-6.
RankValue(c) == 30 * c.trend + 25 * c.breakout + 20 * c.liquidity

C19_Step ==
    /\ Len(open_positions') > Len(open_positions) => pc = "fill"
    /\ (pc = "entry" /\ pc' = "fill") =>
          /\ idx' = 1
          /\ slots' = max_positions - Len(open_positions)
          /\ slots' >= 1
    /\ pc = "fill" =>
          LET cand == candidates[idx]
              a == IF cand.atr.nan THEN (2 * cand.close) \div 100 ELSE cand.atr.v
              byRisk == IF a > 0 THEN (capital * max_risk_pct) \div (100 * (2 * a)) ELSE 0
              quantity == Min(byRisk, capital \div cand.close)
          IN  /\ idx <= slots
              /\ idx <= Len(candidates)
              /\ \A k \in 1..Len(candidates) :
                    /\ history_len[candidates[k].symbol] >= 50
                    /\ candidates[k].trend >= 6000
                    /\ candidates[k].breakout >= 5000
                    /\ candidates[k].liquidity >= 4000
                    /\ candidates[k].risk <= 5000
              /\ \A i, j \in 1..Len(candidates) :
                    i < j => RankValue(candidates[i]) >= RankValue(candidates[j])
              /\ IF quantity <= 0
                 THEN open_positions' = open_positions
                 ELSE /\ Len(open_positions') = Len(open_positions) + 1
                      /\ SubSeq(open_positions', 1, Len(open_positions)) = open_positions
                      /\ open_positions'[Len(open_positions')].symbol = cand.symbol
                      /\ open_positions'[Len(open_positions')].entry_date = trading_date
              /\ idx' = idx + 1
              /\ pc' = "fill" => (candidates' = candidates /\ slots' = slots)
              /\ Cardinality(OpenedOn(open_positions', trading_date)) <= slots

\* C19: every position opened on an entry day belongs to a candidate with at
\* least 50 bars up to the day and scores passing the four filters; the
\* candidates are ordered by 0.30 trend + 0.25 breakout + 0.20 liquidity
\* descending and are taken one by one from the best, each either opened or
\* skipped for a quantity <= 0, and at most `slots` of them are taken.
C19_BestFirst == [][C19_Step]_vars

\* Two free slots and two candidates: the better-placed one was skipped for a
\* quantity of 0 (its ATR is 0) and the next one was opened.
C19_Witness ==
    /\ pc = "mark"
    /\ slots = 2
    /\ Len(candidates) = 2
    /\ candidates[1].atr = [nan |-> FALSE, v |-> 0]
    /\ candidates[1].symbol \notin SymbolsOpenedOn(open_positions, trading_date)
    /\ candidates[2].symbol \in SymbolsOpenedOn(open_positions, trading_date)

\* The Monday-to-Friday dates of [start_date, end_date] (ordinal 1 is a Monday).
WeekdaysInRange == {d \in start_date..end_date : (d - 1) % 7 \in 0..4}

\* The value of the first k positions of a list on a day with the given bars:
\* quantity times the day's close, or times the entry price without a bar.
RECURSIVE ValueOfFirst(_, _, _)
ValueOfFirst(open, bars, k) ==
    IF k = 0 THEN 0
    ELSE ValueOfFirst(open, bars, k - 1)
            + open[k].quantity * (IF bars[open[k].symbol].has
                                  THEN bars[open[k].symbol].close
                                  ELSE open[k].entry_price)

C20_Step ==
    \* a day in progress is the next unmarked Monday-to-Friday date of the range
    /\ InDay =>
          /\ trading_date \in WeekdaysInRange
          /\ Cardinality({d \in WeekdaysInRange : d < trading_date}) = Len(daily_equity)
    \* the mark is the one step that extends daily_equity, by one value
    /\ IF pc = "mark"
       THEN /\ daily_equity' =
                  Append(daily_equity,
                         capital + ValueOfFirst(open_positions, day_bar, Len(open_positions)))
            /\ capital' = capital
            /\ open_positions' = open_positions
            /\ pc' = "day"
       ELSE daily_equity' = daily_equity
    \* the mark comes after the day's exits and entries
    /\ (InDay /\ pc # "mark") => pc' # "day"
    \* when the loop is over every Monday-to-Friday date has its mark
    /\ pc' \in {"final", "done"} => Len(daily_equity') = Cardinality(WeekdaysInRange)

\* C20: daily_equity gets exactly one value per Monday-to-Friday date of
\* [start_date, end_date] and none for a weekend date, appended after the day's
\* exits and entries: capital plus, per open position, quantity times the day's
\* close of its symbol, or quantity times entry_price when it has no bar that day.
C20_OneMarkPerTradingDay == [][C20_Step]_vars

\* A Friday-to-Monday run (two trading days around a weekend) marked twice; on
\* the second day a position entered at 100 is marked at that day's close, 50.
C20_Witness ==
    /\ pc = "day"
    /\ start_date = 5
    /\ end_date = 8
    /\ Len(daily_equity) = 2
    /\ Len(open_positions) = 1
    /\ open_positions[1].entry_price = 100
    /\ last_close[open_positions[1].symbol] = 50
    /\ daily_equity[2] = capital + open_positions[1].quantity * 50

\* C21: the regime and confidence computed for a date D, by run_backtest on
\* trading day D and by run_scoring.main for scoring date D, are the same on
\* two index files that differ only in bars dated after D.
C21_RegimeFromPastOnly ==
    (fn_pc = "return" /\ fn_args.fn \in {"run_scoring", "run_backtest"})
        => fn_ret[1] = fn_ret[2]

\* The part of C21 that holds: the regime of the entry check of run_backtest.
C21_BacktestRegimeFromPastOnly ==
    Returned("run_backtest") => fn_ret[1] = fn_ret[2]

\* run_scoring for date 1 on two files with the same bars up to date 1 (199
\* old bars and a bullish bar dated 1), one of which also has a bearish bar
\* dated 2: BULL on the first, BEAR on the second.
C21_Witness ==
    /\ Returned("run_scoring")
    /\ fn_args.date = 1
    /\ IndexUpTo(fn_args.nifty, 1) = IndexUpTo(fn_args.other, 1)
    /\ IndexBarCount(IndexUpTo(fn_args.nifty, 1)) = 200
    /\ fn_args.nifty = IndexUpTo(fn_args.nifty, 1)
    /\ fn_ret[1].regime = "BULL"
    /\ fn_ret[2].regime = "BEAR"

\* The rolling indicators of a feature row with their windows.
RollingColumns(row) ==
    { <<row.sma_20, 20>>, <<row.sma_50, 50>>, <<row.sma_200, 200>>, <<row.atr_14, 14>>,
      <<row.bb_middle, 20>>, <<row.bb_upper.squares, 20>>, <<row.bb_lower.squares, 20>>,
      <<row.volume_sma_20, 20>> }

\* C22: compute_all_features returns one row per input bar in the input order;
\* the indicators of row i are the same on the frame truncated after any row
\* j >= i; and a rolling indicator of window N (SMA 20/50/200, ATR 14, Bollinger
\* 20, volume SMA 20) is undefined on every row before the N-th (index < N-1).
C22_FeaturesCausal ==
    Returned("compute_all_features") =>
        /\ fn_ret.whole.dates = [k \in 1..Len(fn_args.df) |-> fn_args.df[k].date]
        /\ fn_ret.truncated.dates = [k \in 1..fn_args.cut |-> fn_args.df[k].date]
        /\ fn_ret.whole.row.bar = fn_args.df[fn_args.row]
        /\ fn_ret.truncated.row = fn_ret.whole.row
        /\ \A c \in RollingColumns(fn_ret.whole.row) :
              fn_args.row < c[2] => c[1].nan

\* Row 20 (index 19) of a rising frame of MaxBars rows and of its first 20
\* rows: SMA 20 defined (its window is full for the first time), SMA 50 not.
C22_Witness ==
    /\ Returned("compute_all_features")
    /\ Len(fn_args.df) = MaxBars
    /\ fn_args.df[2].close # fn_args.df[1].close
    /\ fn_args.row = 20
    /\ fn_args.cut = 20
    /\ ~fn_ret.whole.row.sma_20.nan
    /\ fn_ret.whole.row.sma_50.nan
    /\ fn_ret.truncated.row.sma_20 = fn_ret.whole.row.sma_20

\* The dates for which the scoring pipeline has written its score output.
DatesWithScores == {d \in ScoreDates : SavedScoresFile(d) \in outside.files}

C23_Step ==
    \* a run with --skip-existing drops the dates that have scores ...
    /\ (fn_pc = "shell" /\ outside'.runs > outside.runs /\ fn_args'.skip_existing)
          => \A d \in DatesWithScores : d \notin Range(fn_local'.dates_to_process)
    \* ... and starts no run_scoring for them
    /\ (fn_pc = "loop" /\ fn_args.skip_existing
            /\ Len(outside'.invoked) > Len(outside.invoked))
          => outside'.invoked[Len(outside'.invoked)].date \notin DatesWithScores

\* C23: once the scoring pipeline has written its score output for date D
\* under the output directory, a later backfill run with --skip-existing over
\* dates including D removes D from the dates to process and does not invoke
\* run_scoring for D.
C23_SkipExisting == [][C23_Step]_vars

\* What the code does: --skip-existing drops exactly the dates that have a
\* stock_scores.json, and every date left is given to run_scoring.
C23_SkipsJsonOnly ==
    [][/\ (fn_pc = "shell" /\ outside'.runs > outside.runs)
          => Range(fn_local'.dates_to_process) =
                 {d \in Range(fn_args'.dates) :
                     ~(fn_args'.skip_existing /\ ExistingScoresFile(d) \in outside.files)}
       /\ \A d \in ScoreDates : ExistingScoresFile(d) \notin outside.files]_vars

\* Date 1 scored successfully by a first run and scored again by a second run
\* with --skip-existing.
C23_Witness ==
    /\ fn_pc = "loop"
    /\ outside.runs = 2
    /\ fn_args.skip_existing
    /\ Len(outside.invoked) = 2
    /\ outside.invoked[1] = [run |-> 1, date |-> 1, ok |-> TRUE]
    /\ outside.invoked[2].run = 2
    /\ outside.invoked[2].date = 1

C24_Step ==
    /\ (pc = "exit" /\ idx <= Len(open_positions)
           /\ ~day_bar[open_positions[idx].symbol].has)
          => /\ open_positions' = open_positions
             /\ capital' = capital
             /\ trades' = trades
             /\ closed' = closed
    \* the end of the exit check keeps every position whose symbol has no bar today
    /\ (pc = "exit" /\ pc' = "entry")
          => \A k \in 1..Len(open_positions) :
                (open_positions[k].exit_reason = "" /\ ~day_bar[open_positions[k].symbol].has)
                   => open_positions[k] \in Range(open_positions')

\* C24: in the exit check, an open position whose symbol has no bar dated on
\* the current trading day stays in the open-position set with the same
\* stop_loss, target and quantity; capital is not credited and nothing is
\* appended to the ledger for it.
C24_NoBarNoExit == [][C24_Step]_vars

\* After the exit check of a later day, a position entered on an earlier day
\* whose symbol has no bar today is still open, with a non-negative stop.
C24_Witness ==
    /\ pc = "entry"
    /\ Len(open_positions) >= 1
    /\ open_positions[1].entry_date < trading_date
    /\ open_positions[1].exit_reason = ""
    /\ open_positions[1].stop_loss >= 0
    /\ ~day_bar[open_positions[1].symbol].has

\* The number of the first answer of the server that is not a 429, capped at
\* MAX_RETRIES + 1.
FirstFinalAnswer ==
    LET final == {k \in 1..(MAX_RETRIES + 1) : fn_args.responses[k] # 429}
    IN  IF final = {} THEN MAX_RETRIES + 1
        ELSE CHOOSE k \in final : \A j \in final : k <= j

FetchEnded == fn_pc \in {"return", "raised"}

C25_Bounded ==
    /\ outside.requests <= MAX_RETRIES + 1
    \* a request is re-sent only after a 429 and a sleep
    /\ outside.requests <= Len(outside.slept) + 1
    /\ \A k \in 1..Len(outside.slept) :
          /\ fn_args.responses[k] = 429
          /\ outside.slept[k] = <<2, 4, 8, 16, 32>>[k]
    \* the call ends at the first answer that is not a 429, or at the sixth 429
    /\ FetchEnded =>
          /\ outside.requests = FirstFinalAnswer
          /\ fn_local.status_code = fn_args.responses[FirstFinalAnswer]
          /\ fn_local.status_code = 401 => fn_pc = "raised"
          /\ fn_local.status_code = 429 =>
                (fn_pc = "raised" /\ fn_ret = "ValueError: Rate limited (429)"
                    /\ outside.requests = MAX_RETRIES + 1)
          /\ fn_local.status_code = 200 => fn_pc = "return"

\* C25: for every sequence of HTTP responses fetch_chunk ends after at most
\* MAX_RETRIES + 1 = 6 requests; it re-sends only after a 429, having waited
\* 2, 4, 8, 16, 32 seconds; a 401 raises with no further request, the sixth
\* consecutive 429 raises a rate-limit error, a 200 ends the loop with no
\* further request.
C25_FetchTerminates == []C25_Bounded /\ <>FetchEnded /\ [][FetchEnded => UNCHANGED vars]_vars

\* Five 429 answered by five sleeps, then a 200 on the sixth request.
C25_Witness ==
    /\ fn_pc = "return"
    /\ outside.requests = 6
    /\ outside.slept = <<2, 4, 8, 16, 32>>
    /\ fn_local.status_code = 200

\* Six 429 in a row: five sleeps, six requests, the rate-limit error.
C25_WitnessExhausted ==
    /\ fn_pc = "raised"
    /\ outside.requests = 6
    /\ fn_local.status_code = 429
    /\ fn_local.attempt = MAX_RETRIES

\* The cost, entry_price * quantity, of the first k positions of a list that
\* are still open, and the pnl of the first k trades of a ledger.
RECURSIVE OpenCost(_, _)
OpenCost(open, k) ==
    IF k = 0 THEN 0
    ELSE OpenCost(open, k - 1)
         + (IF open[k].exit_reason = "" THEN open[k].entry_price * open[k].quantity ELSE 0)

RECURSIVE LedgerPnl(_, _)
LedgerPnl(ledger, k) == IF k = 0 THEN 0 ELSE LedgerPnl(ledger, k - 1) + ledger[k].pnl

\* C26: cash is conserved: at the end of every trading day and after the final
\* force-close (and in between), capital plus the cost of the open positions is
\* initial_capital plus the pnl of the ledger, every pnl being
\* (exit_price - entry_price) * quantity; the final capital is initial_capital
\* plus the total pnl.
C26_CashConserved ==
    /\ capital + OpenCost(open_positions, Len(open_positions))
          = initial_capital + LedgerPnl(trades, Len(trades))
    /\ \A k \in 1..Len(trades) :
          trades[k].pnl = (trades[k].exit_price - trades[k].entry_price)
                             * trades[k].quantity
    /\ pc \in {"done", "raised"} =>
          capital = initial_capital + LedgerPnl(trades, Len(trades))

\* A finished run with a losing and a winning or timed-out trade in the ledger
\* and a final capital other than the initial one.
C26_Witness ==
    /\ pc = "done"
    /\ Len(trades) >= 2
    /\ \E k \in 1..Len(trades) : trades[k].pnl < 0
    /\ \E k \in 1..Len(trades) : trades[k].exit_reason = "time_exit"
    /\ capital # initial_capital

\* C27: the open-position set never holds two positions for the same symbol:
\* a symbol with an open position is not entered again until that position
\* has been closed.
C27_OneOpenPerSymbol ==
    \A i, j \in 1..Len(open_positions) :
        (i # j /\ open_positions[i].exit_reason = "" /\ open_positions[j].exit_reason = "")
            => open_positions[i].symbol # open_positions[j].symbol

\* What holds instead: two open positions of one symbol were entered on
\* different days.
C27_OneOpenPerSymbolAndDay ==
    \A i, j \in 1..Len(open_positions) :
        (i # j /\ open_positions[i].symbol = open_positions[j].symbol)
            => open_positions[i].entry_date # open_positions[j].entry_date

\* The first symbol entered on Friday and, still open, entered again on Monday.
C27_Witness ==
    /\ pc = "mark"
    /\ Len(open_positions) = 2
    /\ open_positions[1].symbol = open_positions[2].symbol
    /\ open_positions[1].entry_date = 5
    /\ open_positions[2].entry_date = 8
    /\ open_positions[1].exit_reason = ""
    /\ open_positions[2].exit_reason = ""

\* stop_loss < entry_price < target, the target twice as far as the stop.
Bracketed(pos) ==
    /\ pos.stop_loss < pos.entry_price
    /\ pos.entry_price < pos.target
    /\ pos.target - pos.entry_price = 2 * (pos.entry_price - pos.stop_loss)

\* C28: every position created by run_backtest has stop_loss < entry_price <
\* target with target - entry_price = 2 * (entry_price - stop_loss); so every
\* trade closed with reason stop_loss has pnl < 0 and every trade closed with
\* reason target has pnl > 0.
C28_StopBelowTargetAbove ==
    /\ \A k \in 1..Len(open_positions) : Bracketed(open_positions[k])
    /\ \A k \in 1..Len(trades) :
          /\ Bracketed(trades[k])
          /\ trades[k].exit_reason = "stop_loss" => trades[k].pnl < 0
          /\ trades[k].exit_reason = "target" => trades[k].pnl > 0

\* The ledger holds a losing stop exit and a winning target exit, and a
\* candidate with ATR 0 (stop = entry) has been skipped during the run.
C28_Witness ==
    /\ \E k \in 1..Len(trades) : trades[k].exit_reason = "stop_loss" /\ trades[k].pnl < 0
    /\ \E k \in 1..Len(trades) : trades[k].exit_reason = "target" /\ trades[k].pnl > 0
    /\ pc = "mark"
    /\ \E k \in 1..Len(candidates) :
          /\ ~candidates[k].atr.nan
          /\ candidates[k].atr.v = 0
          /\ k < idx

C29_Step ==
    \* a position is sized so that its risk is within the budget ...
    /\ (pc = "fill" /\ Len(open_positions') = Len(open_positions) + 1) =>
          LET pos == open_positions'[Len(open_positions')]
          IN  100 * (pos.entry_price - pos.stop_loss) * pos.quantity
                 <= max_risk_pct * capital
    \* ... and a stop exit loses exactly that risk
    /\ \A k \in (Len(trades) + 1)..Len(trades') :
          LET t == trades'[k]
          IN  t.exit_reason = "stop_loss" =>
                 /\ \E j \in 1..Len(open_positions) :
                       /\ open_positions[j].exit_reason = ""
                       /\ t = CloseTrade(open_positions[j], t.exit_date, t.exit_price,
                                         "stop_loss")
                 /\ 0 - t.pnl = (t.entry_price - t.stop_loss) * t.quantity

\* C29: for every trade closed with reason stop_loss the realised loss,
\* (entry_price - stop_loss) * quantity, is at most max_risk_pct percent of the
\* capital available when the position was sized.
C29_RiskBounded == [][C29_Step]_vars

\* A position sized on the whole initial capital on the first day and stopped
\* out with a loss of exactly max_risk_pct percent of it.
C29_Witness ==
    \E k \in 1..Len(trades) :
        /\ trades[k].exit_reason = "stop_loss"
        /\ trades[k].entry_date = start_date
        /\ 0 - trades[k].pnl = (trades[k].entry_price - trades[k].stop_loss)
                                  * trades[k].quantity
        /\ 100 * (0 - trades[k].pnl) = max_risk_pct * initial_capital
        /\ pc = "done"

\* C30: run_backtest uses no data from after the simulated range: a position
\* still open at the end is closed at the last close of its symbol dated on or
\* before end_date, so the ledger and the final capital are the same whatever
\* bars follow end_date.
C30_NothingAfterEndDate ==
    \A k \in 1..Len(trades) :
        trades[k].exit_reason = "time_exit" =>
            /\ trades[k].exit_price = last_close[trades[k].symbol]
            /\ trades[k].pnl = (last_close[trades[k].symbol] - trades[k].entry_price)
                                  * trades[k].quantity

\* The part of C30 that holds: until the day loop ends nothing of the run
\* depends on the rows after end_date, and the exits of the day loop are
\* priced at the position's own stop or target and dated within the range.
C30_DayLoopFromPastOnly ==
    /\ pc \in {"day", "exit", "entry", "fill", "mark"} =>
          series_last = [s \in SymbolSet |-> 0]
    /\ \A k \in 1..Len(trades) :
          trades[k].exit_reason # "time_exit" =>
              /\ trades[k].exit_price \in {trades[k].stop_loss, trades[k].target}
              /\ trades[k].exit_date <= end_date

\* A finished run whose last trade was force-closed at 70, the close of a row
\* dated after end_date, while the symbol's last close within the range is 100.
C30_Witness ==
    /\ pc = "done"
    /\ Len(trades) >= 1
    /\ trades[Len(trades)].exit_reason = "time_exit"
    /\ trades[Len(trades)].exit_date = end_date
    /\ trades[Len(trades)].exit_price = 70
    /\ last_close[trades[Len(trades)].symbol] = 100
    /\ capital = initial_capital + LedgerPnl(trades, Len(trades))

====
